---- MODULE Spec2Model ----
(***************************************************************************)
(* The epidemic engine of SolFlu: SIRModel (sir_model.py), its             *)
(* TransmissionNetwork (transmission.py) and VirusMutation (mutation.py).  *)
(*                                                                         *)
(* Python floats are modelled as fixed-point integers:                     *)
(*   people (population, S, I, R)      in 1/Scale of a person,             *)
(*   rates and parameters              in 1/Milli,                         *)
(*   probabilities and random draws    in 1/Prob,                          *)
(*   latitudes and longitudes          in 1/LocScale of a degree.          *)
(* Products and quotients are rounded down by Mul, so a real result is     *)
(* represented with an error below one unit per operation.                 *)
(***************************************************************************)
EXTENDS Integers, Sequences, FiniteSets, TLC

VARIABLES
    countries,         \* SIRModel.countries: id -> country record
    country_order,     \* insertion order of the keys of SIRModel.countries
    routes,            \* TransmissionNetwork.routes: the route objects, in order
    route_map,         \* TransmissionNetwork._route_map: source -> indices into routes
    activated_routes,  \* SIRModel.activated_routes: set of "source-target" strings
    mutation,          \* VirusMutation: current_strain, resistance_factors, mutation_history
    snapshot,          \* the value returned by the latest get_state call, if any
    last,              \* the latest call: its name, arguments and outcome
    ncalls,            \* number of calls made so far
    services,          \* api.py: the SimulationService objects made so far, in order
    tasks,             \* api.py: the _update_loop tasks created so far, in order
    session,           \* translator_client.session: "none", "open" or "closing"
    cache,             \* api.py state_cache: the StateCache's cache and previous_state
    active_websockets, \* api.py active_websockets: the registered connections, in order
    sockets            \* the websocket connections: their handler's position and link

vars == <<countries, country_order, routes, route_map, activated_routes,
          mutation, snapshot, last, ncalls, services, tasks, session,
          cache, active_websockets, sockets>>

\* the state of the web service, which calls on the model leave alone
apiVars == <<services, tasks, session, cache, active_websockets, sockets>>

\* the websocket connections a run may open
Sockets == {"w1", "w2"}

\* StateCache.__init__: nothing cached; an absent state is the empty sequence
StateCache == [cache |-> <<>>, previous_state |-> <<>>]

\* no client has connected
NoSockets == [w \in Sockets |-> [pc |-> "absent", link |-> "up"]]

-----------------------------------------------------------------------------
(* Units and bounds *)

Milli == 10 * 10 * 10
Scale == Milli \div 100
Prob == 10 * Milli
LocScale == Milli

\* n people, in units
P(n) == n * Scale

\* bound on the number of calls made on the model
MaxCalls == 4
\* bound on the number of route objects in the network
MaxRoutes == 2

-----------------------------------------------------------------------------
(* Fixed-point arithmetic *)

Abs(x) == IF x < 0 THEN -x ELSE x
Max(a, b) == IF a >= b THEN a ELSE b
Min(a, b) == IF a <= b THEN a ELSE b

\* a*b/c rounded down, for c > 0 and |b| * c within the 32 bits of an
\* integer here: a*b itself is never formed
Mul(a, b, c) == (a \div c) * b + ((a % c) * b) \div c

-----------------------------------------------------------------------------
(* Python dicts with optional keys *)

EmptyDict == [k \in {} |-> 0]
Get(d, k, default) == IF k \in DOMAIN d THEN d[k] ELSE default

Range(s) == {s[i] : i \in DOMAIN s}

RECURSIVE SumOver(_, _, _)
SumOver(table, ids, field) ==
    IF ids = {} THEN 0
    ELSE LET c == CHOOSE x \in ids : TRUE
         IN table[c][field] + SumOver(table, ids \ {c}, field)

-----------------------------------------------------------------------------
(* mutation.py *)

\* MutationThresholds.INFECTION_RATE = 0.3 (Prob)
INFECTION_RATE == 3000
\* MutationThresholds.RECOVERY_RATE = 0.2 (Milli)
RECOVERY_RATE == 200
\* MutationThresholds.BASE_MUTATION_CHANCE = 0.01 (Prob)
BASE_MUTATION_CHANCE == 100

RouteType == {"air", "sea", "land"}

\* VirusMutation.__init__
VirusMutation ==
    [current_strain |-> 0,
     resistance_factors |-> [air |-> 0, sea |-> 0, land |-> 0],
     mutation_history |-> <<>>]

\* a check_mutation_trigger whose infection threshold is inclusive
check_mutation_trigger_inclusive(global_stats, parameters, draw) ==
    IF DOMAIN global_stats = {} \/ DOMAIN parameters = {} THEN FALSE
    ELSE LET infection_rate == Get(global_stats, "infection_rate", 0)
             recovery_rate == Get(parameters, "recovery_rate", Milli)
             c0 == BASE_MUTATION_CHANCE
             c1 == IF infection_rate >= INFECTION_RATE
                   THEN Mul(c0, Prob + infection_rate, Prob) ELSE c0
             c2 == IF recovery_rate > RECOVERY_RATE
                   THEN Mul(c1, Milli - Mul(recovery_rate, 500, Milli), Milli) ELSE c1
         IN draw < c2

\* draw: the value of np.random.random() (Prob)
check_mutation_trigger(global_stats, parameters, draw) ==
    IF DOMAIN global_stats = {} \/ DOMAIN parameters = {} THEN FALSE
    ELSE LET infection_rate == Get(global_stats, "infection_rate", 0)
             recovery_rate == Get(parameters, "recovery_rate", Milli)
             c0 == BASE_MUTATION_CHANCE
             c1 == IF infection_rate > INFECTION_RATE
                   THEN Mul(c0, Prob + infection_rate, Prob) ELSE c0
             c2 == IF recovery_rate > RECOVERY_RATE
                   THEN Mul(c1, Milli - Mul(recovery_rate, 500, Milli), Milli) ELSE c1
         IN draw < c2

\* np.clip(x, 0.0, 1.0) (Milli)
clip(x) == Max(0, Min(Milli, x))

\* a mutate that does not record the event
mutate_unrecorded(m, global_stats, draws) ==
    [m EXCEPT !.current_strain = @ + 1]

\* a mutate that counts the strain twice
mutate_twice(m, global_stats, draws) ==
    [current_strain |-> m.current_strain + 2,
     resistance_factors |-> m.resistance_factors,
     mutation_history |->
         Append(m.mutation_history,
                [strain |-> m.current_strain + 2,
                 timestamp |-> Get(global_stats, "timestamp", 0),
                 global_infection_rate |-> Get(global_stats, "infection_rate", 0)])]

\* a mutate that does not clip the adjusted factors
mutate_unclipped(m, global_stats, draws) ==
    LET strain == m.current_strain + 1
        event == [strain |-> strain,
                  timestamp |-> Get(global_stats, "timestamp", 0),
                  global_infection_rate |-> Get(global_stats, "infection_rate", 0)]
        adjustment(d) == Mul(d - Prob \div 2, 200, Prob)
    IN [current_strain |-> strain,
        resistance_factors |->
            [air |-> m.resistance_factors.air + adjustment(draws[1]),
             sea |-> m.resistance_factors.sea + adjustment(draws[2]),
             land |-> m.resistance_factors.land + adjustment(draws[3])],
        mutation_history |-> Append(m.mutation_history, event)]

\* draws: one np.random.random() value per route type (Prob), in the order
\* air, sea, land of the resistance_factors dict
mutate(m, global_stats, draws) ==
    LET strain == m.current_strain + 1
        event == [strain |-> strain,
                  timestamp |-> Get(global_stats, "timestamp", 0),
                  global_infection_rate |-> Get(global_stats, "infection_rate", 0)]
        adjustment(d) == Mul(d - Prob \div 2, 200, Prob)
    IN [current_strain |-> strain,
        resistance_factors |->
            [air |-> clip(m.resistance_factors.air + adjustment(draws[1])),
             sea |-> clip(m.resistance_factors.sea + adjustment(draws[2])),
             land |-> clip(m.resistance_factors.land + adjustment(draws[3]))],
        mutation_history |-> Append(m.mutation_history, event)]

get_current_state(m) ==
    [strain |-> m.current_strain,
     resistance_factors |-> m.resistance_factors,
     mutation_count |-> Len(m.mutation_history)]

\* an apply_strain_effects that scales the caller's mapping itself
apply_strain_effects_in_place(m, parameters) ==
    LET strain_modifier == Milli + m.current_strain * 50
        modified_params ==
            IF "infection_rate" \in DOMAIN parameters
            THEN [parameters EXCEPT !.infection_rate = Mul(@, strain_modifier, Milli)]
            ELSE parameters
    IN [returned |-> modified_params, input |-> modified_params]

\* VirusMutation.apply_strain_effects: the mapping it returns (a copy of
\* parameters, modified) and the caller's mapping after the call
\* an apply_strain_effects that takes the strain from before the mutation
apply_strain_effects_previous_strain(m, parameters) ==
    LET strain_modifier == Milli + (m.current_strain - 1) * 50
    IN [returned |-> IF "infection_rate" \in DOMAIN parameters
                     THEN [parameters EXCEPT
                              !.infection_rate = Mul(@, strain_modifier, Milli)]
                     ELSE parameters,
        input |-> parameters]

apply_strain_effects(m, parameters) ==
    LET strain_modifier == Milli + m.current_strain * 50
    IN [returned |-> IF "infection_rate" \in DOMAIN parameters
                     THEN [parameters EXCEPT
                              !.infection_rate = Mul(@, strain_modifier, Milli)]
                     ELSE parameters,
        input |-> parameters]

-----------------------------------------------------------------------------
(* transmission.py *)

None == "None"
Origin == [lat |-> 0, lng |-> 0]

\* TransmissionRoute.__init__
TransmissionRoute(source, target, route_type) ==
    [source |-> source, target |-> target, route_type |-> route_type,
     active |-> FALSE, intensity |-> Milli,
     source_point |-> Origin, target_point |-> Origin]

\* TransmissionRoute._base_rates (Milli)
_base_rates(route_type) ==
    CASE route_type = "air" -> 300
      [] route_type = "sea" -> 100
      [] route_type = "land" -> 200

\* TransmissionRoute.activate
activate(route) == IF ~route.active THEN [route EXCEPT !.active = TRUE] ELSE route

\* TransmissionRoute.deactivate
deactivate(route) == IF route.active THEN [route EXCEPT !.active = FALSE] ELSE route

\* TransmissionRoute.calculate_transmission, in units of people; the division
\* by 1000000 is taken in two steps of 1000
calculate_transmission(route, source_infected, target_susceptible, resistance_factors) ==
    IF ~route.active THEN 0
    ELSE LET base_rate == _base_rates(route.route_type)
             resistance == Get(resistance_factors, route.route_type, Milli)
             coeff == Mul(Mul(route.intensity, base_rate, Milli), Milli - resistance, Milli)
             transmission == Mul(Mul(coeff, source_infected, Milli) \div Milli,
                                 target_susceptible, Milli * Scale)
         IN Max(0, transmission)

\* TransmissionNetwork.__init__: a network is [routes, route_map]
TransmissionNetwork == [routes |-> <<>>, route_map |-> EmptyDict]

\* an add_route that puts the new route at the head of its bucket
TransmissionNetwork_add_route_at_head(net, source, target, route_type, source_point, target_point) ==
    LET r0 == TransmissionRoute(source, target, route_type)
        route == IF source_point # None /\ target_point # None
                 THEN [r0 EXCEPT !.source_point = source_point,
                                 !.target_point = target_point]
                 ELSE r0
        idx == Len(net.routes) + 1
        bucket == IF source \in DOMAIN net.route_map THEN net.route_map[source] ELSE <<>>
    IN [routes |-> Append(net.routes, route),
        route_map |-> [s \in DOMAIN net.route_map \cup {source} |->
                          IF s = source THEN <<idx>> \o bucket ELSE net.route_map[s]]]

\* TransmissionNetwork.add_route
TransmissionNetwork_add_route(net, source, target, route_type, source_point, target_point) ==
    LET r0 == TransmissionRoute(source, target, route_type)
        route == IF source_point # None /\ target_point # None
                 THEN [r0 EXCEPT !.source_point = source_point,
                                 !.target_point = target_point]
                 ELSE r0
        idx == Len(net.routes) + 1
        bucket == IF source \in DOMAIN net.route_map THEN net.route_map[source] ELSE <<>>
    IN [routes |-> Append(net.routes, route),
        route_map |-> [s \in DOMAIN net.route_map \cup {source} |->
                          IF s = source THEN Append(bucket, idx) ELSE net.route_map[s]]]

\* TransmissionNetwork.get_outbound_routes: the indices of the bucket's routes
get_outbound_routes(net, country_id) ==
    IF country_id \in DOMAIN net.route_map THEN net.route_map[country_id] ELSE <<>>

\* index of the first route of the bucket whose target matches, 0 if none
FirstMatch(net, source, target) ==
    LET bucket == get_outbound_routes(net, source)
        hits == {k \in DOMAIN bucket : net.routes[bucket[k]].target = target}
    IN IF hits = {} THEN 0
       ELSE bucket[CHOOSE k \in hits : \A j \in hits : k <= j]

\* an activate_route that does not stop at the first match
activate_route_every_match(net, source, target) ==
    [net EXCEPT !.routes =
        [i \in DOMAIN net.routes |->
            IF net.routes[i].source = source /\ net.routes[i].target = target
            THEN activate(net.routes[i]) ELSE net.routes[i]]]

\* TransmissionNetwork.activate_route
activate_route(net, source, target) ==
    LET i == FirstMatch(net, source, target)
    IN IF i = 0 THEN net
       ELSE [net EXCEPT !.routes[i] = activate(@)]

\* TransmissionNetwork.deactivate_route
deactivate_route(net, source, target) ==
    LET i == FirstMatch(net, source, target)
    IN IF i = 0 THEN net
       ELSE [net EXCEPT !.routes[i] = deactivate(@)]

\* TransmissionNetwork.update_intensities
\* an update_intensities that also activates every route
update_intensities_activating(net, parameters) ==
    LET global_intensity == Get(parameters, "transmission_intensity", Milli)
    IN [net EXCEPT !.routes =
           [i \in DOMAIN net.routes |-> [net.routes[i] EXCEPT !.intensity = global_intensity,
                                                              !.active = TRUE]]]

update_intensities(net, parameters) ==
    LET global_intensity == Get(parameters, "transmission_intensity", Milli)
    IN [net EXCEPT !.routes =
           [i \in DOMAIN net.routes |-> [net.routes[i] EXCEPT !.intensity = global_intensity]]]

\* TransmissionNetwork.calculate_transmissions: the loop over routes from index k
RECURSIVE calculate_transmissions_from(_, _, _, _, _)
calculate_transmissions_from(net, table, resistance_factors, k, new_infections) ==
    IF k > Len(net.routes) THEN new_infections
    ELSE LET route == net.routes[k]
         IN IF route.source \notin DOMAIN table \/ route.target \notin DOMAIN table
            THEN calculate_transmissions_from(net, table, resistance_factors, k + 1,
                                              new_infections)
            ELSE LET transmission ==
                         calculate_transmission(route, table[route.source].infected,
                                                table[route.target].susceptible,
                                                resistance_factors)
                     prev == Get(new_infections, route.target, 0)
                     acc == [t \in DOMAIN new_infections \cup {route.target} |->
                                IF t = route.target THEN prev + transmission
                                ELSE new_infections[t]]
                 IN calculate_transmissions_from(net, table, resistance_factors, k + 1, acc)

\* a calculate_transmissions that also counts the routes that are not active
calculate_transmissions_any_route(net, table, resistance_factors) ==
    calculate_transmissions_from(
        [net EXCEPT !.routes =
            [i \in DOMAIN net.routes |-> [net.routes[i] EXCEPT !.active = TRUE]]],
        table, resistance_factors, 1, EmptyDict)

\* a calculate_transmissions that credits each route's source
calculate_transmissions_to_source(net, table, resistance_factors) ==
    calculate_transmissions_from(
        [net EXCEPT !.routes =
            [i \in DOMAIN net.routes |->
                [net.routes[i] EXCEPT !.source = net.routes[i].target,
                                      !.target = net.routes[i].source]]],
        table, resistance_factors, 1, EmptyDict)

\* a calculate_transmissions that takes the resistance of the first route's
\* source country instead of the factors it is given
calculate_transmissions_country_resistance(net, table, resistance_factors) ==
    calculate_transmissions_from(
        net, table,
        IF Len(net.routes) >= 1 /\ net.routes[1].source \in DOMAIN table
        THEN table[net.routes[1].source].resistance ELSE resistance_factors,
        1, EmptyDict)

calculate_transmissions(net, table, resistance_factors) ==
    calculate_transmissions_from(net, table, resistance_factors, 1, EmptyDict)

-----------------------------------------------------------------------------
(* sir_model.py *)

\* SIRModel.beta = 0.3 (Milli)
beta == 300
\* SIRModel.dt = 0.1 (Milli)
dt == 100
\* the fixed seeding of _check_route_activation and its threshold, in people
SEED == 100

DefaultResistance == [air |-> 500, sea |-> 300, land |-> 400]

\* an add_country that stores an empty entry before it fails
add_country_eager(table, order, country_id, data) ==
    [raised |-> "population" \notin DOMAIN data,
     table |-> [c \in DOMAIN table \cup {country_id} |->
                   IF c = country_id
                   THEN [population |-> Get(data, "population", 0),
                         susceptible |-> Get(data, "population", 0) - Get(data, "infected", 0),
                         infected |-> Get(data, "infected", 0),
                         recovered |-> Get(data, "recovered", 0),
                         resistance |-> Get(data, "resistance", DefaultResistance),
                         location |-> Get(data, "location", Origin),
                         infection_radius_sq |-> 0]
                   ELSE table[c]],
     order |-> IF country_id \in DOMAIN table THEN order ELSE Append(order, country_id)]

\* SIRModel.add_country: KeyError when data has no population.
\* infection_radius is held as its square
add_country(table, order, country_id, data) ==
    IF "population" \notin DOMAIN data
    THEN [raised |-> TRUE, table |-> table, order |-> order]
    ELSE LET entry ==
                 [population |-> data["population"],
                  susceptible |-> data["population"] - Get(data, "infected", 0),
                  infected |-> Get(data, "infected", 0),
                  recovered |-> Get(data, "recovered", 0),
                  resistance |-> Get(data, "resistance", DefaultResistance),
                  location |-> Get(data, "location", Origin),
                  infection_radius_sq |-> 0]
         IN [raised |-> FALSE,
             table |-> [c \in DOMAIN table \cup {country_id} |->
                           IF c = country_id THEN entry ELSE table[c]],
             order |-> IF country_id \in DOMAIN table THEN order
                       ELSE Append(order, country_id)]

\* route_id = f"{source}-{target}"
RouteId(source, target) == source \o "-" \o target

\* an add_route that does not look the endpoints up
SIRModel_add_route_unchecked(table, net, activated, source, target, route_type) ==
    [net |-> activate_route(
                 TransmissionNetwork_add_route(net, source, target, route_type, None, None),
                 source, target),
     activated |-> activated \cup {RouteId(source, target)}]

\* an add_route that starts the activated set afresh with the new route
SIRModel_add_route_resetting(table, net, activated, source, target, route_type) ==
    IF source \in DOMAIN table /\ target \in DOMAIN table
    THEN [net |-> activate_route(
                      TransmissionNetwork_add_route(net, source, target, route_type,
                                                    None, None),
                      source, target),
          activated |-> {RouteId(source, target)}]
    ELSE [net |-> net, activated |-> activated]

\* SIRModel.add_route
SIRModel_add_route(table, net, activated, source, target, route_type) ==
    IF source \in DOMAIN table /\ target \in DOMAIN table
    THEN [net |-> activate_route(
                      TransmissionNetwork_add_route(net, source, target, route_type,
                                                    None, None),
                      source, target),
          activated |-> activated \cup {RouteId(source, target)}]
    ELSE [net |-> net, activated |-> activated]

\* SIRModel._infection_reaches_route: distance <= radius, compared on the
\* squares; radius_sq is the square of the radius, in 1/LocScale^2
_infection_reaches_route(location, radius_sq, route) ==
    LET route_point == route.source_point
        dx == location.lng - route_point.lng
        dy == location.lat - route_point.lat
    IN dx * dx + dy * dy <= radius_sq

\* SIRModel._check_route_activation: the loop over the outbound routes from
\* position k of the bucket.  st is the state of update's first loop:
\*   table, activated   self.countries and self.activated_routes, changed in place
\*   raised             an exception has been raised
\*   reached            indices of the routes whose activation condition was met
\*   seeded             the seeding events applied
RECURSIVE _check_route_activation_from(_, _, _, _, _)
_check_route_activation_from(st, net, country_id, radius_sq, k) ==
    LET bucket == get_outbound_routes(net, country_id)
    IN IF st.raised \/ k > Len(bucket) THEN st
       ELSE LET route == net.routes[bucket[k]]
                route_id == RouteId(route.source, route.target)
                location == st.table[country_id].location
            IN IF route_id \in st.activated
               THEN _check_route_activation_from(st, net, country_id, radius_sq, k + 1)
               ELSE IF ~_infection_reaches_route(location, radius_sq, route)
               THEN _check_route_activation_from(st, net, country_id, radius_sq, k + 1)
               ELSE LET st1 == [st EXCEPT !.activated = @ \cup {route_id},
                                          !.reached = @ \cup {bucket[k]}]
                    IN IF route.target \notin DOMAIN st.table
                       THEN [st1 EXCEPT !.raised = TRUE]   \* KeyError
                       ELSE IF st.table[route.target].infected < P(SEED)
                       THEN _check_route_activation_from(
                                [st1 EXCEPT !.table[route.target].infected = @ + P(SEED),
                                            !.table[route.target].susceptible = @ - P(SEED),
                                            !.seeded = @ \cup {[route |-> bucket[k],
                                                                source |-> country_id,
                                                                target |-> route.target]}],
                                net, country_id, radius_sq, k + 1)
                       ELSE _check_route_activation_from(st1, net, country_id,
                                                         radius_sq, k + 1)

_check_route_activation(st, net, country_id, radius_sq) ==
    _check_route_activation_from(st, net, country_id, radius_sq, 1)

\* a _calculate_global_stats that takes the population to be S + I + R
_calculate_global_stats_from_compartments(table) ==
    LET total_susceptible == SumOver(table, DOMAIN table, "susceptible")
        total_infected == SumOver(table, DOMAIN table, "infected")
        total_recovered == SumOver(table, DOMAIN table, "recovered")
        total_population == total_susceptible + total_infected + total_recovered
    IN [total_susceptible |-> total_susceptible,
        total_infected |-> total_infected,
        total_recovered |-> total_recovered,
        total_population |-> total_population,
        infection_rate |-> IF total_population > 0
                           THEN Mul(total_infected, Prob, total_population) ELSE 0,
        timestamp |-> dt]

\* SIRModel._calculate_global_stats
_calculate_global_stats(table) ==
    LET total_infected == SumOver(table, DOMAIN table, "infected")
        total_population == SumOver(table, DOMAIN table, "population")
    IN [total_susceptible |-> SumOver(table, DOMAIN table, "susceptible"),
        total_infected |-> total_infected,
        total_recovered |-> SumOver(table, DOMAIN table, "recovered"),
        total_population |-> total_population,
        infection_rate |-> IF total_population > 0
                           THEN Mul(total_infected, Prob, total_population) ELSE 0,
        timestamp |-> dt]

\* update, lines 132-142: the candidate S/I/R of one country, each floored at 0.
\* p holds effective_dt, effective_beta and recovery_rate (Milli)
sir_step(S, I, R, N, p) ==
    LET internal_transmission == Mul(Mul(S, I, N), p.effective_beta, Milli)
        dSdt == -internal_transmission
        dIdt == internal_transmission - Mul(p.recovery_rate, I, Milli)
        dRdt == Mul(p.recovery_rate, I, Milli)
    IN [susceptible |-> Max(0, S + Mul(dSdt, p.effective_dt, Milli)),
        infected |-> Max(0, I + Mul(dIdt, p.effective_dt, Milli)),
        recovered |-> Max(0, R + Mul(dRdt, p.effective_dt, Milli))]

\* a loop that writes the candidate values into the country at once
store_update_in_place(st, country_id, entry) ==
    [st EXCEPT !.updates = (country_id :> entry) @@ @,
               !.processed = Append(@, country_id),
               !.table[country_id].susceptible = entry.susceptible,
               !.table[country_id].infected = entry.infected,
               !.table[country_id].recovered = entry.recovered]

\* update, line 138: updates[country_id] = {...}; self.countries is not written
store_update(st, country_id, entry) ==
    [st EXCEPT !.updates = (country_id :> entry) @@ @,
               !.processed = Append(@, country_id)]

\* update, lines 112-146: the body of the first loop for one country
process_country(st, net, country_id, p) ==
    LET cd == st.table[country_id]
        S == cd.susceptible
        I == cd.infected
        R == cd.recovered
        N == cd.population
    IN IF N = 0
       THEN [st EXCEPT !.raised = TRUE, !.failed = country_id]   \* ZeroDivisionError
       ELSE LET radius_sq == Mul(I, (LocScale * LocScale) \div 100, N)
                st1 == [st EXCEPT !.table[country_id].infection_radius_sq = radius_sq]
                st2 == _check_route_activation(st1, net, country_id, radius_sq)
            IN IF st2.raised
               THEN [st2 EXCEPT !.failed = country_id]
               ELSE store_update(st2, country_id, sir_step(S, I, R, N, p))

\* update, line 111: for country_id, country_data in self.countries.items()
RECURSIVE first_loop_from(_, _, _, _, _)
first_loop_from(st, net, order, k, p) ==
    IF k > Len(order) THEN st
    ELSE LET st1 == process_country(st, net, order[k], p)
         IN IF st1.raised THEN st1
            ELSE first_loop_from(st1, net, order, k + 1, p)

\* update, lines 155-158
add_route_transmissions(updates, route_transmissions) ==
    [c \in DOMAIN updates |->
        IF c \in DOMAIN route_transmissions
        THEN [updates[c] EXCEPT !.infected = @ + route_transmissions[c],
                                !.susceptible = @ - route_transmissions[c]]
        ELSE updates[c]]

\* a commit without the conservation adjustment
conserve_unscaled(cd) ==
    [raised |-> FALSE, cd |-> cd]

\* update, lines 166-177: the conservation check of one country;
\* ZeroDivisionError when the total is 0
conserve(cd) ==
    LET total == cd.susceptible + cd.infected + cd.recovered
    IN IF Abs(total - cd.population) > Scale
       THEN IF total = 0
            THEN [raised |-> TRUE, cd |-> cd]
            ELSE [raised |-> FALSE,
                  cd |-> [cd EXCEPT !.susceptible = Mul(@, cd.population, total),
                                    !.infected = Mul(@, cd.population, total),
                                    !.recovered = Mul(@, cd.population, total)]]
       ELSE [raised |-> FALSE, cd |-> cd]

\* update, lines 161-177: the commit loop over updates.items() from position k
RECURSIVE apply_updates_from(_, _, _, _)
apply_updates_from(res, updates, keys, k) ==
    IF k > Len(keys) THEN res
    ELSE LET c == keys[k]
             cd1 == [res.table[c] EXCEPT !.susceptible = updates[c].susceptible,
                                         !.infected = updates[c].infected,
                                         !.recovered = updates[c].recovered]
             fixed == conserve(cd1)
             res1 == [raised |-> fixed.raised,
                      failed |-> IF fixed.raised THEN c ELSE res.failed,
                      table |-> [res.table EXCEPT ![c] = fixed.cd]]
         IN IF res1.raised THEN res1
            ELSE apply_updates_from(res1, updates, keys, k + 1)

\* SIRModel.update on the model m = [countries, net, activated, mutation],
\* iterating self.countries in the given order; draw and draws are the
\* np.random.random() values of check_mutation_trigger and mutate.
\* The result holds the model after the call and what happened in it.
update(m, order, parameters, draw, draws) ==
    LET global_stats == _calculate_global_stats(m.countries)
        mutated == check_mutation_trigger(global_stats, parameters, draw)
        mutation1 == IF mutated THEN mutate(m.mutation, global_stats, draws)
                     ELSE m.mutation
        effects == apply_strain_effects(mutation1, parameters)
        parameters1 == IF mutated THEN effects.returned ELSE parameters
        speed_multiplier == Get(parameters1, "speed_multiplier", Milli)
        infection_rate_modifier == Get(parameters1, "infection_rate", Milli)
        recovery_rate == Get(parameters1, "recovery_rate", 100)
        net1 == update_intensities(m.net, parameters1)
        p == [effective_dt |-> Mul(dt, speed_multiplier, Milli),
              effective_beta |-> Mul(beta, infection_rate_modifier, Milli),
              recovery_rate |-> recovery_rate]
        st0 == [table |-> m.countries, activated |-> m.activated,
                updates |-> EmptyDict, processed |-> <<>>,
                raised |-> FALSE, failed |-> None,
                reached |-> {}, seeded |-> {}]
        st == first_loop_from(st0, net1, order, 1, p)
        route_transmissions ==
            calculate_transmissions(net1, st.table,
                                    [route_type \in RouteType |-> 500])
        updates == add_route_transmissions(st.updates, route_transmissions)
        res == apply_updates_from([raised |-> FALSE, failed |-> None, table |-> st.table],
                                  updates, st.processed, 1)
        common == [net |-> net1, activated |-> st.activated, mutation |-> mutation1,
                   mutated |-> mutated, p |-> p, processed |-> st.processed,
                   reached |-> st.reached, seeded |-> st.seeded,
                   after_loop |-> st.table, candidates |-> st.updates,
                   caller_parameters |-> IF mutated THEN effects.input ELSE parameters]
    IN IF st.raised
       THEN [countries |-> st.table, raised |-> TRUE, phase |-> "loop",
             failed |-> st.failed] @@ common
       ELSE [countries |-> res.table, raised |-> res.raised, phase |-> "commit",
             failed |-> res.failed] @@ common

\* the alias that get_state returns for its "countries" entry
SelfCountries == "self.countries"

\* a get_state that empties the activated set into the list it returns
get_state_draining(m) ==
    [value |-> [countries |-> SelfCountries,
                global_stats |-> _calculate_global_stats(m.countries),
                mutation_state |-> get_current_state(m.mutation),
                active_routes |-> m.activated],
     model |-> [m EXCEPT !.activated = {}]]

\* SIRModel.get_state: the returned dict and the model after the call.
\* "countries" is self.countries itself (no copy); global_stats is a new
\* dict, mutation_state copies the resistance factors, active_routes is a
\* new list of the set's elements
get_state(m) ==
    [value |-> [countries |-> SelfCountries,
                global_stats |-> _calculate_global_stats(m.countries),
                mutation_state |-> get_current_state(m.mutation),
                active_routes |-> m.activated],
     model |-> m]

-----------------------------------------------------------------------------
(* The calls made on one SIRModel instance and their inputs *)

Ids == {"A", "B"}

\* add_country's data: a heavily infected country with recovered people, an
\* uninfected country away from the origin, an empty country, and a mapping
\* without population
CountryData ==
    {[population |-> P(1000), infected |-> P(900), recovered |-> P(50)],
     [population |-> P(1000), infected |-> 0, location |-> [lat |-> 0, lng |-> 20]],
     [population |-> 0],
     [infected |-> P(900)]}

\* update's parameters: none (all defaults), those of
\* test_integrated_simulation, and a high transmission intensity
ParamSets ==
    {EmptyDict,
     [infection_rate |-> 1200, recovery_rate |-> 100, transmission_intensity |-> 1000],
     [transmission_intensity |-> 10000 * Milli]}

RouteTypeChoices == {"air"}

\* values of np.random.random() (Prob)
DrawChoices == {0, Prob \div 2}
AdjustChoices == {<<7500, 5000, 2500>>, <<0, 2500, 4900>>}

Model == [countries |-> countries,
          net |-> [routes |-> routes, route_map |-> route_map],
          activated |-> activated_routes,
          mutation |-> mutation]

\* SIRModel.__init__
Init ==
    /\ countries = EmptyDict
    /\ country_order = <<>>
    /\ routes = TransmissionNetwork.routes
    /\ route_map = TransmissionNetwork.route_map
    /\ activated_routes = {}
    /\ mutation = VirusMutation
    /\ snapshot = <<>>
    /\ last = [op |-> "init", raised |-> FALSE]
    /\ ncalls = 0
    /\ services = <<>>
    /\ tasks = <<>>
    /\ session = "none"
    /\ cache = StateCache
    /\ active_websockets = <<>>
    /\ sockets = NoSockets

AddCountry(country_id, data) ==
    /\ ncalls < MaxCalls
    /\ \E r \in {add_country(countries, country_order, country_id, data)} :
          /\ countries' = r.table
          /\ country_order' = r.order
          /\ last' = [op |-> "add_country", raised |-> r.raised,
                      country_id |-> country_id, data |-> data]
    /\ ncalls' = ncalls + 1
    /\ UNCHANGED <<routes, route_map, activated_routes, mutation, snapshot>>
    /\ UNCHANGED apiVars

AddRouteCall(source, target, route_type) ==
    /\ Len(routes) < MaxRoutes
    /\ \E r \in {SIRModel_add_route(countries, Model.net, activated_routes,
                                      source, target, route_type)} :
          /\ routes' = r.net.routes
          /\ route_map' = r.net.route_map
          /\ activated_routes' = r.activated
    /\ last' = [op |-> "add_route", raised |-> FALSE,
                source |-> source, target |-> target, route_type |-> route_type,
                registered |-> source \in DOMAIN countries /\ target \in DOMAIN countries]
    /\ ncalls' = ncalls + 1
    /\ UNCHANGED <<countries, country_order, mutation, snapshot>>
    /\ UNCHANGED apiVars

\* model.transmission_network.add_route(source, target, route_type)
NetAddRouteCall(source, target, route_type) ==
    /\ Len(routes) < MaxRoutes
    /\ \E net \in {TransmissionNetwork_add_route(Model.net, source, target,
                                                   route_type, None, None)} :
          /\ routes' = net.routes
          /\ route_map' = net.route_map
    /\ last' = [op |-> "network_add_route", raised |-> FALSE,
                source |-> source, target |-> target, route_type |-> route_type]
    /\ ncalls' = ncalls + 1
    /\ UNCHANGED <<countries, country_order, activated_routes, mutation, snapshot>>
    /\ UNCHANGED apiVars

\* one update call on the model
AddRoute(source, target, route_type) ==
    /\ ncalls < MaxCalls
    /\ AddRouteCall(source, target, route_type)

NetAddRoute(source, target, route_type) ==
    /\ ncalls < MaxCalls
    /\ NetAddRouteCall(source, target, route_type)

UpdateCall(parameters, draw, draws) ==
    /\ \E r \in {update(Model, country_order, parameters, draw, draws)} :
          /\ countries' = r.countries
          /\ routes' = r.net.routes
          /\ activated_routes' = r.activated
          /\ mutation' = r.mutation
          /\ last' = [op |-> "update", raised |-> r.raised, parameters |-> parameters,
                      pre |-> countries, pre_activated |-> activated_routes,
                      phase |-> r.phase, failed |-> r.failed, processed |-> r.processed,
                      reached |-> r.reached, seeded |-> r.seeded,
                      after_loop |-> r.after_loop, candidates |-> r.candidates,
                      p |-> r.p, mutated |-> r.mutated,
                      caller_parameters |-> r.caller_parameters]
    /\ ncalls' = ncalls + 1
    /\ UNCHANGED <<country_order, route_map, snapshot>>
    /\ UNCHANGED apiVars

Update(parameters, draw, draws) ==
    /\ ncalls < MaxCalls
    /\ UpdateCall(parameters, draw, draws)

GetState ==
    /\ ncalls < MaxCalls
    /\ \E r \in {get_state(Model)} :
          /\ snapshot' = <<[value |-> r.value, countries_at_return |-> countries]>>
          /\ countries' = r.model.countries
          /\ routes' = r.model.net.routes
          /\ route_map' = r.model.net.route_map
          /\ activated_routes' = r.model.activated
          /\ mutation' = r.model.mutation
    /\ last' = [op |-> "get_state", raised |-> FALSE, after |-> last.op]
    /\ ncalls' = ncalls + 1
    /\ UNCHANGED country_order
    /\ UNCHANGED apiVars

Next ==
    \/ \E country_id \in Ids, data \in CountryData : AddCountry(country_id, data)
    \/ \E source \in Ids, target \in Ids, route_type \in RouteTypeChoices :
           AddRoute(source, target, route_type)
    \/ \E source \in Ids, target \in Ids, route_type \in RouteTypeChoices :
           NetAddRoute(source, target, route_type)
    \/ \E parameters \in ParamSets, draw \in DrawChoices, draws \in AdjustChoices :
           Update(parameters, draw, draws)
    \/ GetState

Spec == Init /\ [][Next]_vars

-----------------------------------------------------------------------------
(* Repeated updates of two countries joined by an explicit route *)

\* bound on the number of updates after the set-up
MaxSteps == 3

\* the source: 900 of 1000 infected, with or without recovered people
SpreadSources ==
    {[population |-> P(1000), infected |-> P(900)],
     [population |-> P(1000), infected |-> P(900), recovered |-> P(50)]}

\* the target: nobody infected
SpreadTarget == [population |-> P(1000), infected |-> 0]

\* parameter sets with transmission_intensity > 0, high enough for every
\* flow from an infected source to be several units
SpreadParamSets ==
    {[transmission_intensity |-> 100 * Milli],
     [infection_rate |-> 1000, recovery_rate |-> 100, speed_multiplier |-> 1000,
      transmission_intensity |-> 100 * Milli],
     [recovery_rate |-> 20 * Milli, transmission_intensity |-> 100 * Milli]}

\* the model after add_country("A", source), add_country("B", SpreadTarget)
\* and add_route("A", "B", "air")
SpreadSetup(source) ==
    LET a == add_country(EmptyDict, <<>>, "A", source)
        b == add_country(a.table, a.order, "B", SpreadTarget)
        r == SIRModel_add_route(b.table, TransmissionNetwork, {}, "A", "B", "air")
    IN [countries |-> b.table, order |-> b.order, net |-> r.net,
        activated |-> r.activated]

InitSpread ==
    \E source \in SpreadSources :
        \E m \in {SpreadSetup(source)} :
            /\ countries = m.countries
            /\ country_order = m.order
            /\ routes = m.net.routes
            /\ route_map = m.net.route_map
            /\ activated_routes = m.activated
            /\ mutation = VirusMutation
            /\ snapshot = <<>>
            /\ last = [op |-> "add_route", raised |-> FALSE, source |-> "A",
                       target |-> "B", route_type |-> "air", registered |-> TRUE]
            /\ ncalls = 3
            /\ services = <<>>
            /\ tasks = <<>>
            /\ session = "none"
            /\ cache = StateCache
            /\ active_websockets = <<>>
            /\ sockets = NoSockets

SpreadUpdate(parameters, draw, draws) ==
    /\ ncalls < 3 + MaxSteps
    /\ UpdateCall(parameters, draw, draws)

NextSpread ==
    \E parameters \in SpreadParamSets, draw \in DrawChoices, draws \in AdjustChoices :
        SpreadUpdate(parameters, draw, draws)

SpecSpread == InitSpread /\ [][NextSpread]_vars

-----------------------------------------------------------------------------
(* The transmission network driven directly, as test_transmission_mutation.py
   does: two registered countries, then any sequence of network operations *)

MaxNetCalls == 5

\* two countries with infected and susceptible people, large enough for the
\* flow of every active route to be at least one person
NetCountryA == [population |-> P(10000), infected |-> P(9000)]
NetCountryB == [population |-> P(10000), infected |-> P(5000)]

NetSetup ==
    LET a == add_country(EmptyDict, <<>>, "A", NetCountryA)
        b == add_country(a.table, a.order, "B", NetCountryB)
    IN [countries |-> b.table, order |-> b.order]

\* the countries mappings handed to calculate_transmissions: the whole
\* table, or a partial snapshot without B
NetTables == {NetSetup.countries, [c \in {"A"} |-> NetSetup.countries[c]]}

InitNet ==
    /\ countries = NetSetup.countries
    /\ country_order = NetSetup.order
    /\ routes = TransmissionNetwork.routes
    /\ route_map = TransmissionNetwork.route_map
    /\ activated_routes = {}
    /\ mutation = VirusMutation
    /\ snapshot = <<>>
    /\ last = [op |-> "add_country", raised |-> FALSE, country_id |-> "B",
               data |-> NetCountryB]
    /\ ncalls = 2
    /\ services = <<>>
    /\ tasks = <<>>
    /\ session = "none"
    /\ cache = StateCache
    /\ active_websockets = <<>>
    /\ sockets = NoSockets

\* what every network operation leaves alone
NetFrame ==
    /\ ncalls < 2 + MaxNetCalls
    /\ ncalls' = ncalls + 1
    /\ UNCHANGED <<countries, country_order, activated_routes, mutation, snapshot>>
    /\ UNCHANGED apiVars

\* network.add_route(source, target, route_type)
NetAdd(source, target, route_type) ==
    /\ Len(routes) < MaxRoutes
    /\ \E net \in {TransmissionNetwork_add_route(Model.net, source, target,
                                                   route_type, None, None)} :
          /\ routes' = net.routes
          /\ route_map' = net.route_map
    /\ last' = [op |-> "network_add_route", raised |-> FALSE,
                source |-> source, target |-> target, route_type |-> route_type]
    /\ NetFrame

\* network.activate_route(source, target)
NetActivate(source, target) ==
    /\ \E net \in {activate_route(Model.net, source, target)} :
          /\ routes' = net.routes
          /\ route_map' = net.route_map
    /\ last' = [op |-> "network_activate_route", raised |-> FALSE,
                source |-> source, target |-> target]
    /\ NetFrame

\* network.deactivate_route(source, target)
NetDeactivate(source, target) ==
    /\ \E net \in {deactivate_route(Model.net, source, target)} :
          /\ routes' = net.routes
          /\ route_map' = net.route_map
    /\ last' = [op |-> "network_deactivate_route", raised |-> FALSE,
                source |-> source, target |-> target,
                hit |-> FirstMatch(Model.net, source, target)]
    /\ NetFrame

\* network.update_intensities(parameters)
NetUpdateIntensities(parameters) ==
    /\ \E net \in {update_intensities(Model.net, parameters)} :
          /\ routes' = net.routes
          /\ route_map' = net.route_map
    /\ last' = [op |-> "network_update_intensities", raised |-> FALSE,
                parameters |-> parameters]
    /\ NetFrame

\* network.get_outbound_routes(country_id)
NetGetOutbound(country_id) ==
    /\ last' = [op |-> "network_get_outbound_routes", raised |-> FALSE,
                country_id |-> country_id,
                value |-> get_outbound_routes(Model.net, country_id)]
    /\ UNCHANGED <<routes, route_map>>
    /\ NetFrame

\* network.calculate_transmissions(countries, resistance_factors)
NetCalculate(table) ==
    /\ last' = [op |-> "network_calculate_transmissions", raised |-> FALSE,
                table |-> table,
                value |-> calculate_transmissions(Model.net, table, DefaultResistance)]
    /\ UNCHANGED <<routes, route_map>>
    /\ NetFrame

NextNet ==
    \/ \E source \in Ids, target \in Ids, route_type \in RouteTypeChoices :
           NetAdd(source, target, route_type)
    \/ \E source \in Ids, target \in Ids : NetActivate(source, target)
    \/ \E source \in Ids, target \in Ids : NetDeactivate(source, target)
    \/ \E parameters \in ParamSets : NetUpdateIntensities(parameters)
    \/ \E country_id \in Ids : NetGetOutbound(country_id)
    \/ \E table \in NetTables : NetCalculate(table)

SpecNet == InitNet /\ [][NextNet]_vars

-----------------------------------------------------------------------------
(* The mutation trigger called directly on a new VirusMutation, as
   test_mutation_trigger does: repeated trials with fresh draws *)

MaxTrials == 2

\* global_stats: empty, or an infection rate around the 0.3 threshold (Prob)
TriggerStats ==
    {EmptyDict} \cup
    {[infection_rate |-> r, timestamp |-> Milli] : r \in {0, 3000, 3100, 4000}}

\* parameters: empty, without recovery_rate, or with a recovery rate around
\* the 0.2 threshold (Milli)
TriggerParams ==
    {EmptyDict, [infection_rate |-> 1000]} \cup
    {[recovery_rate |-> r] : r \in {100, 200, 300, 1000, 3000}}

\* values of np.random.random() on both sides of each chance (Prob)
TriggerDraws == {0, 49, 50, 69, 70, 99, 100, 118, 119, 139, 140, 5000, 9999}

\* mutation_system.check_mutation_trigger(global_stats, parameters)
CheckMutationTrigger(global_stats, parameters, draw) ==
    /\ ncalls < MaxTrials
    /\ last' = [op |-> "check_mutation_trigger", raised |-> FALSE,
                global_stats |-> global_stats, parameters |-> parameters,
                draw |-> draw,
                value |-> check_mutation_trigger(global_stats, parameters, draw)]
    /\ ncalls' = ncalls + 1
    /\ UNCHANGED <<countries, country_order, routes, route_map, activated_routes,
                   mutation, snapshot>>
    /\ UNCHANGED apiVars

NextTrigger ==
    \E global_stats \in TriggerStats, parameters \in TriggerParams, draw \in TriggerDraws :
        CheckMutationTrigger(global_stats, parameters, draw)

SpecTrigger == Init /\ [][NextTrigger]_vars

-----------------------------------------------------------------------------
(* api.py: the web service around the one module-level SIRModel.  Every
   handler gets a SimulationService of its own (get_simulation_service,
   startup_event and shutdown_event each construct one); all of them share the
   model and the translator client.  Handlers and loop tasks run on one event
   loop and interleave only at an await that suspends. *)

MaxRequests == 3
MaxApiCalls == 2

\* the country the service is given, and the parameter sets the translator
\* client hands to the loop
ApiCountry == [population |-> P(1000), infected |-> P(900)]
ApiParamSets == {[infection_rate |-> 1200, recovery_rate |-> 100,
                  speed_multiplier |-> Milli, transmission_intensity |-> Milli]}

\* SimulationService.batch_size
batch_size == 10

\* the 10% threshold of _has_significant_changes (Prob)
SignificantChange == Prob \div 10

\* StateCache.update: the copy of the cached dict is shallow, so its
\* "countries" entry stays the reference the state was given
StateCache_update(c, state) ==
    [cache |-> <<state>>, previous_state |-> c.cache]

\* StateCache._calculate_diff; heap is what the reference self.countries
\* holds when the diff is computed
_calculate_diff(old_state, new_state, heap) ==
    LET old_c == IF old_state.countries = SelfCountries THEN heap
                 ELSE old_state.countries
        new_c == IF new_state.countries = SelfCountries THEN heap
                 ELSE new_state.countries
        keys == {"susceptible", "infected", "recovered"}
        differing(c) == {k \in keys : old_c[c][k] # new_c[c][k]}
        touched == {c \in DOMAIN new_c :
                       c \notin DOMAIN old_c \/ differing(c) # {}}
        old_g == old_state.global_stats
        new_g == new_state.global_stats
        old_m == old_state.mutation_state
        new_m == new_state.mutation_state
        diff ==
            [global_stats |->
                 [k \in {k \in DOMAIN new_g : old_g[k] # new_g[k]} |->
                      [old |-> old_g[k], new |-> new_g[k]]],
             countries |->
                 [c \in touched \cup (DOMAIN old_c \ DOMAIN new_c) |->
                      IF c \notin DOMAIN new_c THEN [status |-> "removed"]
                      ELSE IF c \notin DOMAIN old_c
                      THEN [status |-> "new", data |-> new_c[c]]
                      ELSE [status |-> "changed",
                            changes |-> [k \in differing(c) |->
                                             [old |-> old_c[c][k],
                                              new |-> new_c[c][k]]]]],
             mutation_state |->
                 [k \in {k \in {"strain", "resistance_factors"} :
                             old_m[k] # new_m[k]} |->
                      [old |-> old_m[k], new |-> new_m[k]]]]
    IN IF \A part \in DOMAIN diff : DOMAIN diff[part] = {} THEN EmptyDict ELSE diff

\* StateCache.get_diff: the empty sequence for None
get_diff(c, heap) ==
    IF c.previous_state = <<>> \/ c.cache = <<>> THEN <<>>
    ELSE <<_calculate_diff(c.previous_state[1].value, c.cache[1].value, heap)>>

\* SimulationService._has_significant_changes
_has_significant_changes(d) ==
    /\ d # <<>>
    /\ DOMAIN d[1] # {}
    /\ \/ "strain" \in DOMAIN d[1].mutation_state
       \/ /\ "infection_rate" \in DOMAIN d[1].global_stats
          /\ Abs(d[1].global_stats["infection_rate"].new
                 - d[1].global_stats["infection_rate"].old) > SignificantChange
       \/ \E c \in DOMAIN d[1].countries :
              d[1].countries[c].status \in {"new", "removed"}

\* list.remove(x): the list afterwards, and whether ValueError was raised
list_remove(list, x) ==
    LET at == {i \in DOMAIN list : list[i] = x}
    IN IF at = {} THEN [list |-> list, raised |-> TRUE]
       ELSE [list |-> [i \in 1..(Len(list) - 1) |->
                          IF \A j \in at : i < j THEN list[i] ELSE list[i + 1]],
             raised |-> FALSE]

\* SimulationService.__init__; made_for names the handler that constructed
\* it, closing tells that its stop_simulation is suspended in session.close()
SimulationService(handler) ==
    [is_running |-> FALSE, made_for |-> handler, closing |-> FALSE]

\* SimulationService.start_simulation on service i: the services, tasks and
\* translator session after the call.  translator.connect() does not suspend
start_simulation(svcs, tks, sess, i) ==
    IF svcs[i].is_running
    THEN [services |-> svcs, tasks |-> tks, session |-> sess]
    ELSE [services |-> [svcs EXCEPT ![i].is_running = TRUE],
          tasks |-> Append(tks, [service |-> i, pc |-> "top", update_count |-> 0,
                                 pending |-> <<>>, logged |-> 0]),
          session |-> IF sess = "none" THEN "open" ELSE sess]

\* SimulationService.stop_simulation on service i, up to the await of
\* session.close() in translator.close()
stop_simulation(svcs, tks, sess, i) ==
    [services |-> [svcs EXCEPT ![i].is_running = FALSE,
                               ![i].closing = (sess # "none")],
     tasks |-> tks,
     session |-> IF sess = "none" THEN "none" ELSE "closing"]

\* no shutdown_event has run
Serving == \A i \in DOMAIN services : services[i].made_for # "shutdown"

\* what a handler leaves behind: r holds the services, tasks and session
\* after the call it made on the service it constructed
Handled(handler, r) ==
    /\ services' = r.services
    /\ tasks' = r.tasks
    /\ session' = r.session
    /\ last' = [op |-> handler, raised |-> FALSE]
    /\ UNCHANGED <<countries, country_order, routes, route_map, activated_routes,
                   mutation, snapshot, ncalls, cache, active_websockets, sockets>>

\* a handler constructs its service and calls start_simulation on it
HandleStart(handler) ==
    /\ Len(services) < MaxRequests
    /\ Handled(handler, start_simulation(Append(services, SimulationService(handler)),
                                         tasks, session, Len(services) + 1))

\* a handler constructs its service and calls stop_simulation on it
HandleStop(handler) ==
    /\ Len(services) < MaxRequests
    /\ Handled(handler, stop_simulation(Append(services, SimulationService(handler)),
                                        tasks, session, Len(services) + 1))

\* startup_event
Startup ==
    /\ services = <<>>
    /\ HandleStart("startup")

\* control_simulation("start")
ControlStart ==
    /\ services # <<>> /\ Serving
    /\ HandleStart("start")

\* control_simulation("stop")
ControlStop ==
    /\ services # <<>> /\ Serving
    /\ HandleStop("stop")

\* shutdown_event
Shutdown ==
    /\ services # <<>> /\ Serving
    /\ HandleStop("shutdown")

\* TranslatorClient.close resumes after session.close(): self.session = None
CloseDone(i) ==
    /\ services[i].closing
    /\ services' = [services EXCEPT ![i].closing = FALSE]
    /\ session' = "none"
    /\ last' = [op |-> "close_done", raised |-> FALSE, service |-> i]
    /\ UNCHANGED <<countries, country_order, routes, route_map, activated_routes,
                   mutation, snapshot, ncalls, tasks, cache, active_websockets,
                   sockets>>

\* the add_country handler: simulation.add_country(country_id, data)
ApiAddCountry(country_id, data) ==
    /\ Serving
    /\ country_id \notin DOMAIN countries
    /\ \E r \in {add_country(countries, country_order, country_id, data)} :
          /\ countries' = r.table
          /\ country_order' = r.order
          /\ last' = [op |-> "add_country", raised |-> r.raised,
                      country_id |-> country_id, data |-> data]
    /\ UNCHANGED <<routes, route_map, activated_routes, mutation, snapshot, ncalls>>
    /\ UNCHANGED apiVars

\* _update_loop of task t: the test of "while self.is_running"
LoopCheck(t) ==
    /\ tasks[t].pc = "top"
    /\ tasks' = [tasks EXCEPT ![t].pc = IF services[tasks[t].service].is_running
                                        THEN "fetching" ELSE "done"]
    /\ last' = [op |-> "loop_check", raised |-> FALSE, task |-> t,
                running |-> services[tasks[t].service].is_running]
    /\ UNCHANGED <<countries, country_order, routes, route_map, activated_routes,
                   mutation, snapshot, ncalls, services, session, cache,
                   active_websockets, sockets>>

\* an _update_loop whose exception ends the task
loop_uncaught(task) ==
    [task EXCEPT !.pc = "done", !.pending = <<>>]

\* _update_loop's "except Exception": the error is logged, sleep_time is the
\* update interval, and the task goes on to the sleep
loop_caught(task) ==
    [task EXCEPT !.pc = "sleeping", !.pending = <<>>, !.logged = @ + 1]

\* _update_loop of task t, from the return of get_parameters to its next
\* await: simulation.update(parameters), get_state, cache.update, and the
\* decision to broadcast; _broadcast_state suspends only if a connection is
\* registered.  An exception of update is caught and the loop sleeps
LoopUpdate(t, parameters, draw, draws) ==
    /\ tasks[t].pc = "fetching"
    /\ ncalls < MaxApiCalls
    /\ \E r \in {update(Model, country_order, parameters, draw, draws)} :
       \E new_state \in {[value |-> get_state([countries |-> r.countries,
                                                net |-> r.net,
                                                activated |-> r.activated,
                                                mutation |-> r.mutation]).value,
                           countries_at_return |-> r.countries]} :
       \E c \in {IF r.raised THEN cache ELSE StateCache_update(cache, new_state)} :
       \E broadcast \in {/\ ~r.raised
                          /\ \/ tasks[t].update_count + 1 >= batch_size
                             \/ _has_significant_changes(get_diff(c, r.countries))} :
          /\ countries' = r.countries
          /\ routes' = r.net.routes
          /\ activated_routes' = r.activated
          /\ mutation' = r.mutation
          /\ snapshot' = IF r.raised THEN snapshot ELSE <<new_state>>
          /\ cache' = c
          /\ tasks' = [tasks EXCEPT ![t] =
                 IF r.raised THEN loop_caught(tasks[t])
                 ELSE IF broadcast /\ active_websockets # <<>>
                 THEN [@ EXCEPT !.pc = "broadcasting",
                                !.update_count = @ + 1,
                                !.pending = active_websockets]
                 ELSE [@ EXCEPT !.pc = "sleeping",
                                !.update_count = IF broadcast THEN 0 ELSE @ + 1]]
          /\ last' = [op |-> "update", raised |-> r.raised, parameters |-> parameters,
                      task |-> t, mutated |-> r.mutated, broadcast |-> broadcast]
    /\ ncalls' = ncalls + 1
    /\ session' = IF session = "none" THEN "open" ELSE session
    /\ UNCHANGED <<country_order, route_map, services, active_websockets, sockets>>

\* _broadcast_state of task t: websocket.send_text returns or raises for the
\* next connection of the copied list; a failed one is removed from
\* active_websockets, and a ValueError of that removal leaves _broadcast_state
\* and is caught by the loop
BroadcastSend(t) ==
    /\ tasks[t].pc = "broadcasting"
    /\ \E websocket \in {Head(tasks[t].pending)} :
       \E failed \in {sockets[websocket].link = "down"} :
       \E r \in {IF failed THEN list_remove(active_websockets, websocket)
                 ELSE [list |-> active_websockets, raised |-> FALSE]} :
          /\ active_websockets' = r.list
          /\ tasks' = [tasks EXCEPT ![t] =
                 IF r.raised THEN loop_caught(tasks[t])
                 ELSE IF Tail(tasks[t].pending) = <<>>
                 THEN [@ EXCEPT !.pc = "sleeping", !.update_count = 0,
                                !.pending = <<>>]
                 ELSE [@ EXCEPT !.pending = Tail(@)]]
          /\ last' = [op |-> "broadcast_send", raised |-> r.raised, task |-> t,
                      websocket |-> websocket, failed |-> failed]
    /\ UNCHANGED <<countries, country_order, routes, route_map, activated_routes,
                   mutation, snapshot, ncalls, services, session, cache, sockets>>

\* _update_loop of task t: asyncio.sleep returns
LoopWake(t) ==
    /\ tasks[t].pc = "sleeping"
    /\ tasks' = [tasks EXCEPT ![t].pc = "top"]
    /\ last' = [op |-> "loop_wake", raised |-> FALSE, task |-> t]
    /\ UNCHANGED <<countries, country_order, routes, route_map, activated_routes,
                   mutation, snapshot, ncalls, services, session, cache,
                   active_websockets, sockets>>

NextApi ==
    \/ Startup
    \/ ControlStart
    \/ ControlStop
    \/ Shutdown
    \/ \E i \in DOMAIN services : CloseDone(i)
    \/ ApiAddCountry("A", ApiCountry)
    \/ \E t \in DOMAIN tasks : LoopCheck(t)
    \/ \E t \in DOMAIN tasks, parameters \in ApiParamSets, draw \in DrawChoices,
          draws \in AdjustChoices : LoopUpdate(t, parameters, draw, draws)
    \/ \E t \in DOMAIN tasks : LoopWake(t)

SpecApi == Init /\ [][NextApi]_vars

\* the service with its one startup loop, while the add_country handler
\* serves requests between the loop's iterations
NextCache ==
    \/ Startup
    \/ \E country_id \in Ids : ApiAddCountry(country_id, ApiCountry)
    \/ \E t \in DOMAIN tasks : LoopCheck(t)
    \/ \E t \in DOMAIN tasks, parameters \in ApiParamSets, draw \in DrawChoices,
          draws \in AdjustChoices : LoopUpdate(t, parameters, draw, draws)
    \/ \E t \in DOMAIN tasks : LoopWake(t)

SpecCache == Init /\ [][NextCache]_vars

\* websocket_endpoint for connection w, up to its first receive_text:
\* accept, then active_websockets.append(websocket)
WsConnect(w) ==
    /\ Serving
    /\ sockets[w].pc = "absent"
    /\ sockets' = [sockets EXCEPT ![w].pc = "receiving"]
    /\ active_websockets' = Append(active_websockets, w)
    /\ last' = [op |-> "ws_connect", raised |-> FALSE, websocket |-> w]
    /\ UNCHANGED <<countries, country_order, routes, route_map, activated_routes,
                   mutation, snapshot, ncalls, services, tasks, session, cache>>

\* the client of connection w goes away: from now on send_text and
\* receive_text on it raise
WsDrop(w) ==
    /\ sockets[w].pc = "receiving"
    /\ sockets[w].link = "up"
    /\ sockets' = [sockets EXCEPT ![w].link = "down"]
    /\ last' = [op |-> "ws_drop", raised |-> FALSE, websocket |-> w]
    /\ UNCHANGED <<countries, country_order, routes, route_map, activated_routes,
                   mutation, snapshot, ncalls, services, tasks, session, cache,
                   active_websockets>>

\* websocket_endpoint for connection w: receive_text raises, the exception
\* is logged, and the finally clause removes the connection; pc "failed"
\* tells that the removal raised ValueError and the handler ended with it
WsCleanup(w) ==
    /\ sockets[w].pc = "receiving"
    /\ sockets[w].link = "down"
    /\ \E r \in {list_remove(active_websockets, w)} :
          /\ active_websockets' = r.list
          /\ sockets' = [sockets EXCEPT ![w].pc = IF r.raised THEN "failed"
                                                  ELSE "closed"]
          /\ last' = [op |-> "ws_cleanup", raised |-> r.raised, websocket |-> w]
    /\ UNCHANGED <<countries, country_order, routes, route_map, activated_routes,
                   mutation, snapshot, ncalls, services, tasks, session, cache>>

\* a country without inhabitants, on which update raises ZeroDivisionError
EmptyCountry == [population |-> 0]

\* the service with its startup loop and websocket clients that come and go
NextWs ==
    \/ Startup
    \/ ApiAddCountry("A", ApiCountry)
    \/ ApiAddCountry("B", EmptyCountry)
    \/ \E w \in Sockets : WsConnect(w)
    \/ \E w \in Sockets : WsDrop(w)
    \/ \E w \in Sockets : WsCleanup(w)
    \/ \E t \in DOMAIN tasks : LoopCheck(t)
    \/ \E t \in DOMAIN tasks, parameters \in ApiParamSets, draw \in DrawChoices,
          draws \in AdjustChoices : LoopUpdate(t, parameters, draw, draws)
    \/ \E t \in DOMAIN tasks : BroadcastSend(t)
    \/ \E t \in DOMAIN tasks : LoopWake(t)

SpecWs == Init /\ [][NextWs]_vars

\* the event loop runs every task that is ready: a sleep that has elapsed
\* returns, and the loop test that follows it is made
SpecWsLive ==
    /\ SpecWs
    /\ \A t \in 1..MaxRequests :
          /\ WF_vars(t \in DOMAIN tasks /\ LoopWake(t))
          /\ WF_vars(t \in DOMAIN tasks /\ LoopCheck(t))

-----------------------------------------------------------------------------
(* The mutation engine called directly, as test_mutation_effects does, from
   the states a long run leaves it in: after EarlierMutations mutations every
   factor can be anywhere between 0 and 1 *)

MaxMutations == 2
EarlierMutations == 10

\* resistance factors at and next to both ends of [0, 1] (Milli)
FactorChoices == {0, 40, 960, Milli}

\* values of np.random.random() at both ends and in the middle of [0, 1) (Prob)
MutateDraws == {0, Prob \div 2, Prob - 1}

RECURSIVE EarlierHistory(_)
EarlierHistory(n) ==
    IF n = 0 THEN <<>>
    ELSE Append(EarlierHistory(n - 1),
                [strain |-> n, timestamp |-> dt, global_infection_rate |-> 0])

InitMutate ==
    /\ countries = EmptyDict
    /\ country_order = <<>>
    /\ routes = TransmissionNetwork.routes
    /\ route_map = TransmissionNetwork.route_map
    /\ activated_routes = {}
    /\ \E air \in FactorChoices, sea \in FactorChoices, land \in FactorChoices :
           mutation = [current_strain |-> EarlierMutations,
                       resistance_factors |-> [air |-> air, sea |-> sea, land |-> land],
                       mutation_history |-> EarlierHistory(EarlierMutations)]
    /\ snapshot = <<>>
    /\ last = [op |-> "init", raised |-> FALSE]
    /\ ncalls = 0
    /\ services = <<>>
    /\ tasks = <<>>
    /\ session = "none"
    /\ cache = StateCache
    /\ active_websockets = <<>>
    /\ sockets = NoSockets

\* mutation_system.mutate(global_stats)
Mutate(global_stats, draws) ==
    /\ ncalls < MaxMutations
    /\ mutation' = mutate(mutation, global_stats, draws)
    /\ last' = [op |-> "mutate", raised |-> FALSE, global_stats |-> global_stats,
                draws |-> draws, before |-> mutation.resistance_factors]
    /\ ncalls' = ncalls + 1
    /\ UNCHANGED <<countries, country_order, routes, route_map, activated_routes,
                   snapshot>>
    /\ UNCHANGED apiVars

NextMutate ==
    \E d1 \in MutateDraws, d2 \in MutateDraws, d3 \in MutateDraws :
        Mutate([infection_rate |-> 4000, timestamp |-> Milli], <<d1, d2, d3>>)

SpecMutate == InitMutate /\ [][NextMutate]_vars

-----------------------------------------------------------------------------
(* A model in which nobody is infected: two countries registered with
   infected = 0, then routes and updates *)

\* countries without infected people, at the default location and elsewhere
QuietCountries ==
    {[population |-> P(1000), infected |-> 0],
     [population |-> P(1000), infected |-> 0, location |-> [lat |-> 0, lng |-> 20]]}

QuietSetup(a_data, b_data) ==
    LET a == add_country(EmptyDict, <<>>, "A", a_data)
        b == add_country(a.table, a.order, "B", b_data)
    IN [countries |-> b.table, order |-> b.order]

InitQuiet ==
    /\ \E a_data \in QuietCountries, b_data \in QuietCountries :
           /\ countries = QuietSetup(a_data, b_data).countries
           /\ country_order = QuietSetup(a_data, b_data).order
           /\ last = [op |-> "add_country", raised |-> FALSE, country_id |-> "B",
                      data |-> b_data]
    /\ routes = TransmissionNetwork.routes
    /\ route_map = TransmissionNetwork.route_map
    /\ activated_routes = {}
    /\ mutation = VirusMutation
    /\ snapshot = <<>>
    /\ ncalls = 2
    /\ services = <<>>
    /\ tasks = <<>>
    /\ session = "none"
    /\ cache = StateCache
    /\ active_websockets = <<>>
    /\ sockets = NoSockets

NextQuiet ==
    \/ \E source \in Ids, target \in Ids, route_type \in RouteTypeChoices :
           AddRoute(source, target, route_type)
    \/ \E source \in Ids, target \in Ids, route_type \in RouteTypeChoices :
           NetAddRoute(source, target, route_type)
    \/ \E parameters \in ParamSets, draw \in DrawChoices, draws \in AdjustChoices :
           Update(parameters, draw, draws)

SpecQuiet == InitQuiet /\ [][NextQuiet]_vars

-----------------------------------------------------------------------------
(* Country ids that contain the separator of the activated-set identifiers:
   two countries "A" and "A-A", one of them infected, and routes between them
   added through the model or through its network *)

MaxIdCalls == 5

DashIds == {"A", "A-A"}

DashCountries ==
    {[population |-> P(1000), infected |-> P(900)],
     [population |-> P(1000), infected |-> 0]}

DashSetup(a_data, b_data) ==
    LET a == add_country(EmptyDict, <<>>, "A", a_data)
        b == add_country(a.table, a.order, "A-A", b_data)
    IN [countries |-> b.table, order |-> b.order]

InitIds ==
    /\ \E a_data \in DashCountries, b_data \in DashCountries :
           /\ countries = DashSetup(a_data, b_data).countries
           /\ country_order = DashSetup(a_data, b_data).order
           /\ last = [op |-> "add_country", raised |-> FALSE, country_id |-> "A-A",
                      data |-> b_data]
    /\ routes = TransmissionNetwork.routes
    /\ route_map = TransmissionNetwork.route_map
    /\ activated_routes = {}
    /\ mutation = VirusMutation
    /\ snapshot = <<>>
    /\ ncalls = 2
    /\ services = <<>>
    /\ tasks = <<>>
    /\ session = "none"
    /\ cache = StateCache
    /\ active_websockets = <<>>
    /\ sockets = NoSockets

IdsAddRoute(source, target, route_type) ==
    /\ ncalls < MaxIdCalls
    /\ AddRouteCall(source, target, route_type)

IdsNetAddRoute(source, target, route_type) ==
    /\ ncalls < MaxIdCalls
    /\ NetAddRouteCall(source, target, route_type)

IdsUpdate(parameters, draw, draws) ==
    /\ ncalls < MaxIdCalls
    /\ UpdateCall(parameters, draw, draws)

NextIds ==
    \/ \E source \in DashIds, target \in DashIds, route_type \in RouteTypeChoices :
           IdsAddRoute(source, target, route_type)
    \/ \E source \in DashIds, target \in DashIds, route_type \in RouteTypeChoices :
           IdsNetAddRoute(source, target, route_type)
    \/ \E parameters \in ParamSets, draw \in DrawChoices, draws \in AdjustChoices :
           IdsUpdate(parameters, draw, draws)

SpecIds == InitIds /\ [][NextIds]_vars

-----------------------------------------------------------------------------
(* Properties of the engine *)

Total(cd) == cd.susceptible + cd.infected + cd.recovered

\* the latest call was an update that returned normally
Stepped == last.op = "update" /\ ~last.raised

\* the orders in which the registered countries can be iterated
Orders(order) ==
    {o \in [1..Len(order) -> Range(order)] : Range(o) = Range(order)}

\* the table a returned "countries" entry refers to now
Deref(ref) == IF ref = SelfCountries THEN countries ELSE ref

\* C1: after every update that returns, every country has
\* |S + I + R - population| <= 1.0 (one person is Scale units)
C1_Conservation ==
    Stepped => \A c \in DOMAIN countries :
                   Abs(Total(countries[c]) - countries[c].population) <= Scale

\* C1's case: a step has committed a country whose total was off by more
\* than 1.0 before the step, so the rescaling of lines 170-177 has acted
C1_Witness ==
    /\ Stepped
    /\ \E c \in DOMAIN last.pre :
          Abs(Total(last.pre[c]) - last.pre[c].population) > Scale

\* C2: after every update that returns, susceptible, infected and recovered
\* of every country are each >= 0
C2_NonNegative ==
    Stepped => \A c \in DOMAIN countries :
                   /\ countries[c].susceptible >= 0
                   /\ countries[c].infected >= 0
                   /\ countries[c].recovered >= 0

\* C2's failing state: a step returned, the country received flow over an
\* active route and is left with negative susceptible although its total
\* equals its population
C2_NegativeSusceptible ==
    /\ Stepped
    /\ \E i \in DOMAIN routes :
          /\ routes[i].active
          /\ routes[i].target \in DOMAIN countries
          /\ countries[routes[i].target].susceptible < 0
          /\ Total(countries[routes[i].target]) = countries[routes[i].target].population

\* C3: from the same state, with the same parameters and random draws, update
\* leaves the same country table whatever the order in which the countries
\* are iterated (compared on the runs that return)
C3_OrderIndependent ==
    \A order \in Orders(country_order) \ {country_order},
       parameters \in ParamSets, draw \in DrawChoices, draws \in AdjustChoices :
        \A r1 \in {update(Model, country_order, parameters, draw, draws)},
           r2 \in {update(Model, order, parameters, draw, draws)} :
            (~r1.raised /\ ~r2.raised) => r1.countries = r2.countries

\* C4: every seeding applied during a step that returns is for a pair that was
\* not in the activated set, puts the pair in the set (so that it never seeds
\* again), and is present in the target at the end of the step: the values
\* committed for the target are the step computed from its seeded values
C4_SeedingPresent ==
    Stepped =>
        \A e \in last.seeded :
            /\ RouteId(e.source, e.target) \notin last.pre_activated
            /\ RouteId(e.source, e.target) \in activated_routes
            /\ last.candidates[e.target] =
                   sir_step(last.after_loop[e.target].susceptible,
                            last.after_loop[e.target].infected,
                            last.after_loop[e.target].recovered,
                            last.after_loop[e.target].population, last.p)

\* C4's failing state: a target was seeded during the step (infected below
\* 100 before, +100 in the loop) and ends the step with the infected count
\* it had before the seeding
C4_SeedLost ==
    /\ Stepped
    /\ \E e \in last.seeded :
          /\ last.pre[e.target].infected < P(SEED)
          /\ last.after_loop[e.target].infected = last.pre[e.target].infected + P(SEED)
          /\ last.candidates[e.target] = sir_step(last.pre[e.target].susceptible,
                                                  last.pre[e.target].infected,
                                                  last.pre[e.target].recovered,
                                                  last.pre[e.target].population, last.p)
          /\ countries[e.target].infected = 0

\* C5: a route that meets its activation condition during an update that
\* returns is active after it (update never clears an active flag, so the
\* rest of the claim follows from this)
C5_ReachedRouteActive ==
    Stepped => \A i \in last.reached : routes[i].active

\* C5's failing state: the route met its condition, its pair is in the
\* activated set, and the route object is still inactive
C5_ReachedRouteInactive ==
    /\ Stepped
    /\ \E i \in last.reached :
          /\ RouteId(routes[i].source, routes[i].target) \in activated_routes
          /\ ~routes[i].active

\* C6: the countries in the value returned by get_state are, after any later
\* call, what they were when get_state returned
C6_SnapshotIndependent ==
    snapshot # <<>> =>
        Deref(snapshot[1].value.countries) = snapshot[1].countries_at_return

\* C6's failing state: a later update changed what the returned value shows
C6_SnapshotChanged ==
    /\ snapshot # <<>>
    /\ last.op = "update"
    /\ \E c \in DOMAIN snapshot[1].countries_at_return :
          Deref(snapshot[1].value.countries)[c].infected
              # snapshot[1].countries_at_return[c].infected

\* C7: a get_state call leaves the country table, the routes, the activated
\* set and the mutation state unchanged, and returns what the get_state call
\* just before it returned
C7_GetStateReadOnly ==
    [][(last'.op = "get_state" /\ ncalls' = ncalls + 1) =>
          /\ UNCHANGED <<countries, country_order, routes, route_map,
                         activated_routes, mutation>>
          /\ (last.op = "get_state" => snapshot' = snapshot)]_vars

\* C7's case: two get_state calls in a row on a model with countries
C7_Witness ==
    /\ last.op = "get_state"
    /\ last.after = "get_state"
    /\ DOMAIN countries # {}

\* C8: after add_country with population > 0 and infected and recovered in
\* [0, population], the stored country has S + I + R = population
C8_ConservationAtCreation ==
    (/\ last.op = "add_country"
     /\ ~last.raised
     /\ last.data["population"] > 0
     /\ Get(last.data, "infected", 0) \in 0..last.data["population"]
     /\ Get(last.data, "recovered", 0) \in 0..last.data["population"])
    => Total(countries[last.country_id]) = countries[last.country_id].population

\* C8's failing state: the stored total exceeds the population by the
\* recovered count given
C8_TotalExceeds ==
    /\ last.op = "add_country"
    /\ ~last.raised
    /\ Get(last.data, "recovered", 0) > 0
    /\ Total(countries[last.country_id])
           = countries[last.country_id].population + Get(last.data, "recovered", 0)

\* C9: after SIRModel.add_route with both endpoints registered, the route
\* just created (the last of the network) is active and the pair is in the
\* activated set
C9_NewRouteActive ==
    (last.op = "add_route" /\ last.registered) =>
        /\ routes[Len(routes)].source = last.source
        /\ routes[Len(routes)].target = last.target
        /\ routes[Len(routes)].active
        /\ RouteId(last.source, last.target) \in activated_routes

\* C9's failing state: a second route for the pair was created and is inactive
C9_DuplicateInactive ==
    /\ last.op = "add_route"
    /\ last.registered
    /\ Len(routes) = 2
    /\ routes[1].source = routes[2].source
    /\ routes[1].target = routes[2].target
    /\ routes[1].active
    /\ ~routes[2].active

\* C10 as stated: when processing a country raises, the countries processed
\* before it hold the S/I/R values computed for them in that step
C10_ProcessedKeepNewValues ==
    (last.op = "update" /\ last.raised /\ last.phase = "loop") =>
        \A c \in Range(last.processed) :
            /\ countries[c].susceptible = last.candidates[c].susceptible
            /\ countries[c].infected = last.candidates[c].infected
            /\ countries[c].recovered = last.candidates[c].recovered

\* C10 amended: when processing a country raises, update stops at that
\* country and no computed value is committed: every country holds the S/I/R
\* it had before the step, moved only by the seedings applied to it
C10_FailedStepCommitsNothing ==
    (last.op = "update" /\ last.raised /\ last.phase = "loop") =>
        /\ Len(last.processed) < Len(country_order)
        /\ last.processed = SubSeq(country_order, 1, Len(last.processed))
        /\ last.failed = country_order[Len(last.processed) + 1]
        /\ \A c \in DOMAIN countries :
              \E seeds \in {Cardinality({e \in last.seeded : e.target = c})} :
                  /\ countries[c].susceptible
                         = last.pre[c].susceptible - seeds * P(SEED)
                  /\ countries[c].infected = last.pre[c].infected + seeds * P(SEED)
                  /\ countries[c].recovered = last.pre[c].recovered

\* C10's case: the step raised after computing, for a country it had already
\* processed, values that differ from the ones the country holds
C10_Witness ==
    /\ last.op = "update"
    /\ last.raised
    /\ last.phase = "loop"
    /\ \E c \in Range(last.processed) :
          last.candidates[c].infected # last.pre[c].infected

\* C11: add_country with a mapping that lacks population raises and leaves
\* the country table (its entries and their order) unchanged
C11_MissingPopulation ==
    [][(/\ last'.op = "add_country"
        /\ ncalls' = ncalls + 1
        /\ "population" \notin DOMAIN last'.data)
       => /\ last'.raised
          /\ UNCHANGED <<countries, country_order>>]_vars

\* C11's case: the call failed for an id that already has an entry
C11_Witness ==
    /\ last.op = "add_country"
    /\ last.raised
    /\ "population" \notin DOMAIN last.data
    /\ last.country_id \in DOMAIN countries

\* C12: SIRModel.add_route with an unregistered source or target raises
\* nothing and leaves the route list, the source index, every active flag and
\* the activated set (and the rest of the model) unchanged
C12_AddRouteNoOp ==
    [][(/\ last'.op = "add_route"
        /\ ncalls' = ncalls + 1
        /\ ~last'.registered)
       => /\ ~last'.raised
          /\ UNCHANGED <<routes, route_map, activated_routes, countries,
                         country_order, mutation>>]_vars

\* C12's case: the call named an unregistered country on a model that has
\* a country and a route
C12_Witness ==
    /\ last.op = "add_route"
    /\ ~last.registered
    /\ {last.source, last.target} \cap DOMAIN countries # {}
    /\ routes # <<>>

\* C13: the strain number starts at 0, never decreases, an update raises it
\* by at most 1 and no other call changes it
C13_MonotonicStrain ==
    /\ (ncalls = 0 => mutation.current_strain = 0)
    /\ [][/\ mutation'.current_strain >= mutation.current_strain
          /\ mutation'.current_strain <= mutation.current_strain + 1
          /\ (last'.op # "update" => mutation'.current_strain = mutation.current_strain)]_vars

\* C13's case: two updates have each triggered a mutation
C13_Witness ==
    /\ last.op = "update"
    /\ last.mutated
    /\ mutation.current_strain = 2

\* C14: in every reachable state the history has as many records as the
\* strain number, record i carries strain i, and the mutation_count that
\* get_state reports (now, and in the latest value returned) equals the
\* strain it reports
C14_HistoryMatchesStrain ==
    /\ Len(mutation.mutation_history) = mutation.current_strain
    /\ \A i \in DOMAIN mutation.mutation_history :
           mutation.mutation_history[i].strain = i
    /\ get_state(Model).value.mutation_state.mutation_count
           = Len(mutation.mutation_history)
    /\ get_state(Model).value.mutation_state.strain = mutation.current_strain
    /\ snapshot # <<>> =>
           snapshot[1].value.mutation_state.mutation_count
               = snapshot[1].value.mutation_state.strain

\* C14's case: get_state has reported two mutations
C14_Witness ==
    /\ last.op = "get_state"
    /\ snapshot[1].value.mutation_state.mutation_count = 2
    /\ Len(mutation.mutation_history) = 2

\* the countries that are the target of some route of the network
Targets == {routes[i].target : i \in DOMAIN routes}

\* C15: a country that is the target of no route has no entry in
\* calculate_transmissions, and an update that returns neither seeds it nor
\* adds inflow to it: it is committed the internal SIR step of its pre-step
\* values (so a route A->B with A # B adds nothing to A)
C15_RouteIsolation ==
    /\ DOMAIN calculate_transmissions(Model.net, countries,
                                      [route_type \in RouteType |-> 500])
           \subseteq Targets
    /\ Stepped =>
           \A c \in DOMAIN countries \ Targets :
               /\ last.after_loop[c].susceptible = last.pre[c].susceptible
               /\ last.after_loop[c].infected = last.pre[c].infected
               /\ \E step \in {sir_step(last.pre[c].susceptible, last.pre[c].infected,
                                        last.pre[c].recovered, last.pre[c].population,
                                        last.p)} :
                      countries[c] =
                          conserve([last.after_loop[c] EXCEPT
                                       !.susceptible = step.susceptible,
                                       !.infected = step.infected,
                                       !.recovered = step.recovered]).cd

\* C15's case: an update moved infections over an active route A->B, A # B,
\* while no route targets A
C15_Witness ==
    /\ Stepped
    /\ \E i \in DOMAIN routes :
          /\ routes[i].active
          /\ routes[i].source # routes[i].target
          /\ routes[i].source \in DOMAIN countries \ Targets
          /\ routes[i].target \in DOMAIN countries
          /\ last.pre[routes[i].source].infected > 0
          /\ countries[routes[i].target].infected
                 > last.candidates[routes[i].target].infected

\* C16: with an explicit route from a source with infected > 0 to a target
\* with susceptible > 0 and transmission_intensity > 0 in every step, the
\* target's infected is > 0 after the first update and after every later one
C16_SpreadPersists ==
    (last.op = "update" /\ ~last.raised) => countries["B"].infected > 0

\* C16's failing state: the target was infected by the first update and has
\* no infected after the second
C16_InfectionLost ==
    /\ last.op = "update"
    /\ ~last.raised
    /\ ncalls = 5
    /\ last.pre["B"].infected > 0
    /\ last.pre["B"].susceptible > 0
    /\ countries["B"].infected = 0

\* the documented defaults of update's parameters (Milli)
Defaults ==
    [infection_rate |-> Milli, recovery_rate |-> 100, speed_multiplier |-> Milli,
     transmission_intensity |-> Milli]

\* parameters with one more key
With(parameters, key, value) ==
    [k \in DOMAIN parameters \cup {key} |->
        IF k \in DOMAIN parameters THEN parameters[k] ELSE value]

\* what an update leaves behind and whether it mutated
Outcome(r) ==
    [countries |-> r.countries, net |-> r.net, activated |-> r.activated,
     mutation |-> r.mutation, raised |-> r.raised, mutated |-> r.mutated]

\* C17: from every state and for the same draws, update with a parameter set
\* that omits a key has the outcome of update with that key at its documented
\* default, and an unknown key changes nothing
C17_DefaultsEquivalent ==
    \A parameters \in ParamSets, draw \in DrawChoices, draws \in AdjustChoices :
        \A r \in {Outcome(update(Model, country_order, parameters, draw, draws))} :
            /\ \A key \in DOMAIN Defaults \ DOMAIN parameters :
                   r = Outcome(update(Model, country_order,
                                      With(parameters, key, Defaults[key]), draw, draws))
            /\ r = Outcome(update(Model, country_order,
                                  With(parameters, "unknown_key", 1), draw, draws))

\* C17's failing state: a country is registered, and for a draw below the
\* mutation chance update({}) does not mutate while update with
\* recovery_rate at its default 0.1 does
C17_DefaultChangesMutation ==
    /\ DOMAIN countries # {}
    /\ \E draw \in DrawChoices, draws \in AdjustChoices :
          /\ ~update(Model, country_order, EmptyDict, draw, draws).mutated
          /\ update(Model, country_order, [recovery_rate |-> Defaults.recovery_rate],
                    draw, draws).mutated

\* C18: apply_strain_effects returns the parameters with infection_rate (if
\* present) multiplied by 1 + 0.05 * current_strain and every other key as it
\* was, and leaves its input as it was; after every update the mapping the
\* caller passed is as it was passed
C18_StrainEffectsFrame ==
    /\ \A parameters \in ParamSets :
           \E e \in {apply_strain_effects(mutation, parameters)} :
               /\ e.input = parameters
               /\ DOMAIN e.returned = DOMAIN parameters
               /\ \A k \in DOMAIN parameters :
                      e.returned[k] =
                          IF k = "infection_rate"
                          THEN Mul(parameters[k], Milli + 50 * mutation.current_strain,
                                   Milli)
                          ELSE parameters[k]
    /\ last.op = "update" => last.caller_parameters = last.parameters

\* C18's case: an update mutated and ran with an infection_rate scaled by
\* the new strain
C18_Witness ==
    /\ last.op = "update"
    /\ last.mutated
    /\ "infection_rate" \in DOMAIN last.parameters
    /\ mutation.current_strain >= 1
    /\ last.p.effective_beta > Mul(beta, last.parameters.infection_rate, Milli)

\* C19: after any sequence of network operations every route of the flat
\* list appears exactly once in the bucket of its source, every bucket entry
\* is a route of the list with the bucket's source, and each bucket lists its
\* routes in the order they were added
C19_IndexConsistent ==
    /\ \A i \in DOMAIN routes :
           /\ routes[i].source \in DOMAIN route_map
           /\ Cardinality({k \in DOMAIN route_map[routes[i].source] :
                              route_map[routes[i].source][k] = i}) = 1
    /\ \A s \in DOMAIN route_map :
           /\ \A k \in DOMAIN route_map[s] :
                  /\ route_map[s][k] \in DOMAIN routes
                  /\ routes[route_map[s][k]].source = s
           /\ \A j, k \in DOMAIN route_map[s] :
                  j < k => route_map[s][j] < route_map[s][k]

\* C19's case: two routes share a source, and a deactivation has just
\* switched one of them off
C19_Witness ==
    /\ Len(routes) = 2
    /\ routes[1].source = routes[2].source
    /\ last.op = "network_deactivate_route"
    /\ last.hit # 0
    /\ \E i \in DOMAIN routes : ~routes[i].active /\ routes[3 - i].active

\* C20: no call removes an identifier from the activated set, and the
\* active_routes of a snapshot contain those of the snapshot before it
C20_ActivatedMonotonic ==
    [][/\ activated_routes \subseteq activated_routes'
       /\ (snapshot # <<>> /\ snapshot' # <<>>) =>
              snapshot[1].value.active_routes \subseteq snapshot'[1].value.active_routes]_vars

\* C20's case: a snapshot listing an activated route was followed by
\* another snapshot
C20_Witness ==
    /\ last.op = "get_state"
    /\ last.after = "get_state"
    /\ activated_routes # {}
    /\ snapshot[1].value.active_routes = activated_routes

\* the sum of one field over the countries, taken along the iteration order
RECURSIVE SumAlong(_, _, _)
SumAlong(table, order, field) ==
    IF order = <<>> THEN 0
    ELSE table[Head(order)][field] + SumAlong(table, Tail(order), field)

\* the table of test_global_stats: populations 1,000,000 and 2,000,000 with
\* 1,000 and 2,000 infected, nobody recovered
StatsExample ==
    add_country(add_country(EmptyDict, <<>>, "A",
                            [population |-> P(1000000), infected |-> P(1000),
                             recovered |-> 0]).table,
                <<"A">>, "B",
                [population |-> P(2000000), infected |-> P(2000), recovered |-> 0]).table

\* C21: the global_stats of every snapshot are the sums of susceptible,
\* infected, recovered and population over the registered countries, and
\* infection_rate is total_infected / total_population, or 0 when the total
\* population is 0; the two-country example gives 3,000,000, 3,000 and 0.001
C21_StatsDerived ==
    /\ last.op = "get_state" =>
           \E gs \in {snapshot[1].value.global_stats} :
               /\ gs.total_susceptible = SumAlong(countries, country_order, "susceptible")
               /\ gs.total_infected = SumAlong(countries, country_order, "infected")
               /\ gs.total_recovered = SumAlong(countries, country_order, "recovered")
               /\ gs.total_population = SumAlong(countries, country_order, "population")
               /\ gs.infection_rate =
                      IF gs.total_population = 0 THEN 0
                      ELSE Mul(gs.total_infected, Prob, gs.total_population)
    /\ \E gs \in {_calculate_global_stats(StatsExample)} :
           /\ gs.total_population = P(3000000)
           /\ gs.total_infected = P(3000)
           /\ gs.total_susceptible = P(2997000)
           /\ gs.infection_rate = Prob \div 1000

\* C21's case: a snapshot of two countries with a positive infection rate
C21_Witness ==
    /\ last.op = "get_state"
    /\ Len(country_order) = 2
    /\ snapshot[1].value.global_stats.total_infected > 0
    /\ snapshot[1].value.global_stats.infection_rate > 0
    /\ snapshot[1].value.global_stats.total_population
           # Total(countries["A"]) + Total(countries["B"])

\* the network holds one route A -> B exactly as add_route made it, with the
\* intensity update_intensities sets for transmission_intensity 1.0, and the
\* latest call is calculate_transmissions with an infected source, a
\* susceptible target and a resistance below 1
AddedRouteQueried ==
    /\ last.op = "network_calculate_transmissions"
    /\ last.table = countries
    /\ Len(routes) = 1
    /\ routes[1] = [TransmissionRoute("A", "B", routes[1].route_type)
                        EXCEPT !.intensity = Milli]
    /\ countries["A"].infected > 0
    /\ countries["B"].susceptible > 0
    /\ DefaultResistance[routes[1].route_type] < Milli

\* C22: after add_route(A, B, type) and update_intensities with intensity
\* 1.0, calculate_transmissions reports a strictly positive inflow for B
\* when A has infected, B has susceptible and the resistance is below 1
C22_AddedRouteCarries ==
    AddedRouteQueried => Get(last.value, "B", 0) > 0

\* the added route was queried and the inflow reported for B is 0
C22_NoInflow ==
    /\ AddedRouteQueried
    /\ "B" \in DOMAIN last.value
    /\ last.value["B"] = 0

\* C23: every mutate call raises the strain by exactly 1, appends exactly
\* one history record and changes at least one of the three resistance
\* factors
C23_MutateChangesResistance ==
    [][(last'.op = "update" /\ ncalls' = ncalls + 1 /\ last'.mutated) =>
           /\ mutation'.current_strain = mutation.current_strain + 1
           /\ Len(mutation'.mutation_history) = Len(mutation.mutation_history) + 1
           /\ mutation'.resistance_factors # mutation.resistance_factors]_vars

\* the first mutate call has run and the resistance factors are those of a
\* new VirusMutation
C23_ResistanceUnchanged ==
    /\ last.op = "update"
    /\ last.mutated
    /\ mutation.current_strain = 1
    /\ Len(mutation.mutation_history) = 1
    /\ mutation.resistance_factors = VirusMutation.resistance_factors

\* draw < 0.01 * (1 + ir if ir > 0.3, else 1) * (1 - 0.5 * rr if rr > 0.2,
\* else 1), with ir and draw in 1/10000 and rr in 1/1000, compared exactly
\* on integers
BelowChance(draw, ir, rr) ==
    draw * 200000 < (IF ir > 3000 THEN 10000 + ir ELSE 10000)
                        * (IF rr > 200 THEN 2000 - rr ELSE 2000)

SensitivityBases == {[recovery_rate |-> 100], [recovery_rate |-> Milli]}
LowRate == 500
HighRate == 2000

\* the countries after one step of a copy of the current state
SteppedCopy(base, infection_rate, draw, draws) ==
    update(Model, country_order, With(base, "infection_rate", infection_rate),
           draw, draws)

\* C25: stepping two copies of a state with the same draws and parameter
\* sets that differ only in infection_rate, every country's infected under
\* the larger rate is >= its infected under the smaller one, and strictly
\* greater when the country has susceptible > 0 and infected > 0
C25_InfectionRateMonotone ==
    \A base \in SensitivityBases, draw \in DrawChoices, draws \in AdjustChoices :
        \E lo \in {SteppedCopy(base, LowRate, draw, draws)} :
        \E hi \in {SteppedCopy(base, HighRate, draw, draws)} :
            (~lo.raised /\ ~hi.raised) =>
                \A c \in DOMAIN countries :
                    /\ hi.countries[c].infected >= lo.countries[c].infected
                    /\ (countries[c].susceptible > 0 /\ countries[c].infected > 0) =>
                           hi.countries[c].infected > lo.countries[c].infected

\* an update left a country with negative susceptible, and stepping two
\* copies of that state leaves the country with fewer infected under the
\* larger infection_rate
C25_LargerRateFewerInfected ==
    /\ Stepped
    /\ \E c \in DOMAIN countries :
          /\ countries[c].susceptible < 0
          /\ countries[c].infected > 0
          /\ \E base \in SensitivityBases, draw \in DrawChoices, draws \in AdjustChoices :
             \E lo \in {SteppedCopy(base, LowRate, draw, draws)} :
             \E hi \in {SteppedCopy(base, HighRate, draw, draws)} :
                /\ ~lo.raised /\ ~hi.raised
                /\ hi.countries[c].infected < lo.countries[c].infected

\* the update loops that have not returned
AliveTasks == {t \in DOMAIN tasks : tasks[t].pc # "done"}

\* C26: after any sequence of startup and start/stop commands at most one
\* _update_loop task is alive; a start issued while a loop is running does
\* not create a second loop
C26_SingleWriter ==
    Cardinality(AliveTasks) <= 1

\* two update loops are alive and each has called update on the shared model
C26_TwoLoops ==
    /\ last.op = "update"
    /\ \E t, u \in AliveTasks :
          /\ t # u
          /\ tasks[t].pc = "sleeping"
          /\ tasks[u].pc = "sleeping"

\* the latest command was a stop, it has completed, and no start came after
Stopped ==
    /\ services # <<>>
    /\ services[Len(services)].made_for = "stop"
    /\ ~services[Len(services)].closing

\* C27: once a stop command has completed and no start was issued after
\* it, a loop that reaches its test finds the service stopped and returns,
\* so it makes no further update
C27_StopHaltsLoop ==
    [][(Stopped /\ last'.op = "loop_check" /\ tasks' # tasks) => ~last'.running]_vars

\* after a completed stop, with no later start, a loop has just made its
\* test, found its own service still running and gone on to the next update
C27_LoopOutlivesStop ==
    /\ Stopped
    /\ last.op = "loop_check"
    /\ last.running
    /\ tasks[last.task].service < Len(services)
    /\ tasks[last.task].pc = "fetching"

\* the earliest-added route of the pair, 0 if the pair has no route
EarliestOfPair(source, target) ==
    LET hits == {i \in DOMAIN routes :
                    routes[i].source = source /\ routes[i].target = target}
    IN IF hits = {} THEN 0 ELSE CHOOSE i \in hits : \A j \in hits : i <= j

\* the network after the call differs from the current one at most in the
\* active flag of the earliest-added route of the pair, which is now flag
TogglesOnlyFirst(after, source, target, flag) ==
    /\ after.route_map = route_map
    /\ DOMAIN after.routes = DOMAIN routes
    /\ \A i \in DOMAIN routes :
           after.routes[i] = IF i = EarliestOfPair(source, target)
                             THEN [routes[i] EXCEPT !.active = flag]
                             ELSE routes[i]

\* C28: activate_route and deactivate_route set the flag of the first route
\* of the source's bucket whose target matches and leave every other route
\* as it was, duplicates of the pair included; they change nothing when the
\* source is unknown or no route matches; a second call changes nothing more
C28_FirstMatchOnly ==
    \A source \in Ids \cup {"unknown"}, target \in Ids :
        /\ \E after \in {activate_route(Model.net, source, target)} :
               /\ TogglesOnlyFirst(after, source, target, TRUE)
               /\ activate_route(after, source, target) = after
        /\ \E after \in {deactivate_route(Model.net, source, target)} :
               /\ TogglesOnlyFirst(after, source, target, FALSE)
               /\ deactivate_route(after, source, target) = after

\* C28's case: the pair has two routes and an activate_route has just
\* switched on the first and left the second off
C28_Witness ==
    /\ last.op = "network_activate_route"
    /\ Len(routes) = 2
    /\ routes[1].source = last.source /\ routes[1].target = last.target
    /\ routes[2].source = last.source /\ routes[2].target = last.target
    /\ routes[1].active
    /\ ~routes[2].active

\* max(0, base_rate * intensity * source.infected * target.susceptible
\*        * (1 - resistance) / 1,000,000) for one route, in the units and
\* rounding of the engine
FlowOf(route, table, resistance_factors) ==
    Max(0, Mul(Mul(Mul(Mul(route.intensity, _base_rates(route.route_type), Milli),
                       Milli - resistance_factors[route.route_type], Milli),
                   table[route.source].infected, Milli) \div Milli,
               table[route.target].susceptible, Milli * Scale))

\* the sum of FlowOf over a set of route indices
RECURSIVE SumFlows(_, _, _)
SumFlows(indices, table, resistance_factors) ==
    IF indices = {} THEN 0
    ELSE LET i == CHOOSE x \in indices : TRUE
         IN FlowOf(routes[i], table, resistance_factors)
                + SumFlows(indices \ {i}, table, resistance_factors)

\* the active routes into target whose endpoints are both in the table
Carrying(target, table) ==
    {i \in DOMAIN routes : /\ routes[i].target = target
                           /\ routes[i].active
                           /\ routes[i].source \in DOMAIN table
                           /\ routes[i].target \in DOMAIN table}

\* C29: calculate_transmissions reports for each target the sum, over the
\* active routes into it whose source and target are both in the supplied
\* mapping, of the route's flow floored at 0; inactive routes and routes
\* with a missing endpoint add nothing; the call changes neither the
\* countries nor any route
C29_SumOfActiveFlows ==
    /\ [](last.op = "network_calculate_transmissions" =>
            /\ \A target \in Ids :
                   Get(last.value, target, 0)
                       = SumFlows(Carrying(target, last.table), last.table,
                                  DefaultResistance)
            /\ DOMAIN last.value \subseteq DOMAIN last.table)
    /\ [][(last'.op = "network_calculate_transmissions" /\ ncalls' = ncalls + 1) =>
              (countries' = countries /\ routes' = routes /\ route_map' = route_map)]_vars

\* C29's case: two active routes into B both carry a flow and the reported
\* inflow of B is larger than either
C29_Witness ==
    /\ last.op = "network_calculate_transmissions"
    /\ Len(routes) = 2
    /\ Carrying("B", last.table) = {1, 2}
    /\ FlowOf(routes[1], last.table, DefaultResistance) > 0
    /\ FlowOf(routes[2], last.table, DefaultResistance) > 0
    /\ last.value["B"] > FlowOf(routes[1], last.table, DefaultResistance)
    /\ last.value["B"] > FlowOf(routes[2], last.table, DefaultResistance)

\* C30: each of the three resistance factors is in [0, 1] in every state,
\* and one mutate call moves each factor by at most 0.1
C30_ResistanceBounded ==
    /\ [](\A k \in RouteType :
             0 <= mutation.resistance_factors[k] /\ mutation.resistance_factors[k] <= Milli)
    /\ [][\A k \in RouteType :
             Abs(mutation'.resistance_factors[k] - mutation.resistance_factors[k])
                 <= Milli \div 10]_vars

\* C30's case: a mutate call pushed one factor past 1 and another below 0,
\* and both were clamped
C30_Witness ==
    /\ last.op = "mutate"
    /\ \E k \in RouteType :
          /\ last.before[k] = 960
          /\ mutation.resistance_factors[k] = Milli
    /\ \E k \in RouteType :
          /\ last.before[k] = 40
          /\ mutation.resistance_factors[k] = 0

\* C31: when every registered country has infected = 0, an update leaves
\* every country with infected = 0 and its susceptible as it was, whatever
\* routes the network holds
C31_NoSpontaneousInfection ==
    [][(/\ last'.op = "update" /\ ncalls' = ncalls + 1
        /\ \A c \in DOMAIN countries : countries[c].infected = 0) =>
           \A c \in DOMAIN countries :
               /\ countries'[c].infected = 0
               /\ countries'[c].susceptible = countries[c].susceptible]_vars

\* nobody was infected before the latest update, which seeded the target of
\* a route and left it with infected people
C31_InfectedFromNothing ==
    /\ Stepped
    /\ \A c \in DOMAIN last.pre : last.pre[c].infected = 0
    /\ last.seeded # {}
    /\ \E c \in DOMAIN countries :
          /\ countries[c].infected >= P(SEED)
          /\ countries[c].susceptible < last.pre[c].susceptible

\* C32: once the loop has cached two consecutive states, get_diff lists every
\* country added between them as "new" and every country whose susceptible,
\* infected or recovered changed between them as "changed", with the old and
\* the new value of each changed compartment
C32_DiffReportsCountries ==
    (last.op = "update" /\ ~last.raised /\ cache.previous_state # <<>>) =>
        LET before == cache.previous_state[1].countries_at_return
            after == cache.cache[1].countries_at_return
            d == get_diff(cache, countries)
            listed(c) == /\ d # <<>>
                         /\ DOMAIN d[1] # {}
                         /\ c \in DOMAIN d[1].countries
            differing(c) == {k \in {"susceptible", "infected", "recovered"} :
                                before[c][k] # after[c][k]}
        IN \A c \in DOMAIN after :
              IF c \notin DOMAIN before
              THEN listed(c) /\ d[1].countries[c].status = "new"
              ELSE differing(c) # {} =>
                      /\ listed(c)
                      /\ d[1].countries[c].status = "changed"
                      /\ d[1].countries[c].changes =
                             [k \in differing(c) |->
                                  [old |-> before[c][k], new |-> after[c][k]]]

\* the loop has cached a second state in which a country is new and another
\* has other compartments than in the first, and the diff lists no country
C32_ChangesUnreported ==
    /\ last.op = "update" /\ ~last.raised /\ cache.previous_state # <<>>
    /\ \E c \in DOMAIN cache.cache[1].countries_at_return :
          c \notin DOMAIN cache.previous_state[1].countries_at_return
    /\ \E c \in DOMAIN cache.previous_state[1].countries_at_return :
          cache.previous_state[1].countries_at_return[c].infected
              # cache.cache[1].countries_at_return[c].infected
    /\ get_diff(cache, countries) # <<>>
    /\ DOMAIN get_diff(cache, countries)[1] # {}
    /\ DOMAIN get_diff(cache, countries)[1].countries = {}

\* C33: whatever the interleaving of broadcasts and websocket handlers, no
\* removal from active_websockets fails: no websocket_endpoint ends with the
\* ValueError of its cleanup, and no broadcast raises the ValueError of
\* removing a connection that is no longer registered
C33_RemovalsSucceed ==
    /\ \A w \in Sockets : sockets[w].pc # "failed"
    /\ last.op = "broadcast_send" => ~last.raised

\* a broadcast failed to send to a connection and removed it, and the
\* cleanup of that connection's handler then raised on its own removal
C33_CleanupAfterBroadcastRemoval ==
    /\ last.op = "ws_cleanup"
    /\ last.raised
    /\ sockets[last.websocket].pc = "failed"
    /\ \A i \in DOMAIN active_websockets : active_websockets[i] # last.websocket

\* C34: an identifier of the activated set never stands for routes of two
\* different (source, target) pairs, so that marking one pair cannot make the
\* radius-activation check skip a route of another pair
C34_ActivatedIdNamesOnePair ==
    \A i \in DOMAIN routes, j \in DOMAIN routes :
        (/\ RouteId(routes[i].source, routes[i].target) \in activated_routes
         /\ RouteId(routes[i].source, routes[i].target)
                = RouteId(routes[j].source, routes[j].target)) =>
            /\ routes[i].source = routes[j].source
            /\ routes[i].target = routes[j].target

\* an update skipped a route that only the network knows, whose source
\* country sits on the route's source point and whose target had nobody
\* infected, because add_route had marked a route of another pair
C34_RouteSkippedForOtherPair ==
    /\ last.op = "update" /\ ~last.raised
    /\ \E i \in DOMAIN routes, j \in DOMAIN routes :
          /\ <<routes[i].source, routes[i].target>>
                 # <<routes[j].source, routes[j].target>>
          /\ RouteId(routes[i].source, routes[i].target)
                 = RouteId(routes[j].source, routes[j].target)
          /\ routes[i].active /\ ~routes[j].active
          /\ RouteId(routes[j].source, routes[j].target) \in last.pre_activated
          /\ last.pre[routes[j].source].location = routes[j].source_point
          /\ last.pre[routes[j].target].infected = 0
          /\ j \notin last.reached
          /\ last.seeded = {}
          /\ countries[routes[j].target].infected = 0

\* the model with every country's resistance mapping replaced by mapping and
\* the mutation engine's resistance factors by factors
Resisting(m, mapping, factors) ==
    [m EXCEPT !.countries = [c \in DOMAIN m.countries |->
                                 [m.countries[c] EXCEPT !.resistance = mapping]],
              !.mutation.resistance_factors = factors]

\* other resistances than any run produces: none at all and complete
ResistanceAlternatives ==
    {<<[air |-> 0, sea |-> 0, land |-> 0], [air |-> Milli, sea |-> Milli, land |-> Milli]>>,
     <<[air |-> Milli, sea |-> Milli, land |-> Milli], [air |-> 0, sea |-> 0, land |-> 0]>>}

\* C35: from every reachable model, an update of the model and the same update
\* of a model that differs only in the countries' resistance mappings and in
\* the mutation engine's resistance factors end alike in every country's
\* susceptible, infected and recovered, in the routes, in the activated set,
\* in the strain and in whether they raised
C35_ResistanceIrrelevant ==
    \A alt \in ResistanceAlternatives, parameters \in SpreadParamSets,
       draw \in DrawChoices, draws \in AdjustChoices :
        \E a \in {update(Model, country_order, parameters, draw, draws)} :
        \E b \in {update(Resisting(Model, alt[1], alt[2]), country_order,
                         parameters, draw, draws)} :
            /\ a.raised = b.raised
            /\ a.mutated = b.mutated
            /\ a.net = b.net
            /\ a.activated = b.activated
            /\ a.mutation.current_strain = b.mutation.current_strain
            /\ \A c \in DOMAIN a.countries :
                  /\ a.countries[c].susceptible = b.countries[c].susceptible
                  /\ a.countries[c].infected = b.countries[c].infected
                  /\ a.countries[c].recovered = b.countries[c].recovered

\* a mutating update has run and an active route carries a positive flow
\* under the fixed resistance, so the next update depends on the factor used
C35_Witness ==
    /\ Stepped
    /\ last.mutated
    /\ \E i \in DOMAIN routes :
          /\ routes[i].active
          /\ routes[i].source \in DOMAIN countries
          /\ routes[i].target \in DOMAIN countries
          /\ FlowOf(routes[i], countries, [route_type \in RouteType |-> 500]) > 0
          /\ \E alt \in ResistanceAlternatives :
                FlowOf(routes[i], countries, alt[1])
                   # FlowOf(routes[i], countries, [route_type \in RouteType |-> 500])

\* C36: after an update in which the trigger did not fire, the effective beta
\* was 0.3 times the supplied infection_rate (1.0 if none was supplied),
\* whatever the strain; after one in which it fired, it was 0.3 times the
\* infection_rate times (1 + 0.05 * the new strain) if an infection_rate was
\* supplied and 0.3 otherwise
C36_StrainMultiplierOnlyWhenMutating ==
    last.op = "update" =>
        IF ~last.mutated
        THEN last.p.effective_beta
                = Mul(beta, Get(last.parameters, "infection_rate", Milli), Milli)
        ELSE IF "infection_rate" \in DOMAIN last.parameters
        THEN last.p.effective_beta
                = Mul(beta, Mul(last.parameters["infection_rate"],
                                Milli + 50 * mutation.current_strain, Milli), Milli)
        ELSE last.p.effective_beta = beta

\* an update with an infection_rate ran without mutating although an earlier
\* update had raised the strain above 0
C36_Witness ==
    /\ last.op = "update"
    /\ ~last.mutated
    /\ mutation.current_strain >= 1
    /\ "infection_rate" \in DOMAIN last.parameters
    /\ last.parameters["infection_rate"] # Milli

\* an update with an infection_rate mutated, and the multiplier of the new
\* strain changed the effective beta
C36_Fired ==
    /\ last.op = "update"
    /\ last.mutated
    /\ "infection_rate" \in DOMAIN last.parameters
    /\ last.p.effective_beta # Mul(beta, last.parameters["infection_rate"], Milli)

\* C37: while the service is running, a loop task that caught an exception of
\* its iteration (of update or of the broadcast) and went to sleep gets back
\* to the start of another iteration; the exception does not end the loop
C37_LoopGoesOn ==
    \A t \in 1..MaxRequests :
        (/\ t \in DOMAIN tasks
         /\ last.op \in {"update", "broadcast_send"}
         /\ last.raised
         /\ last.task = t) ~> (t \in DOMAIN tasks /\ tasks[t].pc = "fetching")

\* the loop has caught and logged an exception and is in a later iteration
C37_Witness ==
    /\ Len(tasks) = 1
    /\ tasks[1].logged >= 1
    /\ tasks[1].pc = "fetching"
    /\ services[tasks[1].service].is_running

\* C38: an update, whether it returns or raises, keeps the set of countries
\* and their order, every country's fields other than susceptible, infected,
\* recovered and the infection radius (so its population, location and
\* resistance), the list of routes and every route's fields other than its
\* intensity, and the network's index of the routes
C38_UpdateFrame ==
    [][(last'.op = "update" /\ ncalls' = ncalls + 1) =>
          /\ DOMAIN countries' = DOMAIN countries
          /\ country_order' = country_order
          /\ \A c \in DOMAIN countries :
                /\ countries'[c].population = countries[c].population
                /\ countries'[c].location = countries[c].location
                /\ countries'[c].resistance = countries[c].resistance
                /\ countries'[c] =
                       [countries[c] EXCEPT
                           !.susceptible = countries'[c].susceptible,
                           !.infected = countries'[c].infected,
                           !.recovered = countries'[c].recovered,
                           !.infection_radius_sq = countries'[c].infection_radius_sq]
          /\ DOMAIN routes' = DOMAIN routes
          /\ \A i \in DOMAIN routes :
                routes'[i] = [routes[i] EXCEPT !.intensity = routes'[i].intensity]
          /\ route_map' = route_map]_vars

\* a mutating update has changed a country's infected and the intensity of
\* a route that is registered but not active
C38_Witness ==
    /\ Stepped
    /\ last.mutated
    /\ \E c \in DOMAIN countries : countries[c].infected # last.pre[c].infected
    /\ \E i \in DOMAIN routes : ~routes[i].active /\ routes[i].intensity # Milli

====
